---- MODULE Spec2Model ----
(***************************************************************************)
(* A model of the JPEG decoder of jpeg.js (src/jpeg.js, src/huffman.js and *)
(* the arithmetic coder of src/unnamed/part_007).                          *)
(*                                                                         *)
(* Buffers are sequences of bytes; the source indexes them from 0, the     *)
(* model keeps the source's 0-based indices and reads through At.          *)
(* A routine that may throw returns Ok(value) or Throw(message).           *)
(***************************************************************************)
EXTENDS Integers, Sequences, FiniteSets, TLC

VARIABLES
    pc,        \* position of the running routine
    input,     \* the arguments of the routine under check
    result,    \* what the routine returned (or threw)
    jpg,       \* the fields of the JPEG object
    local      \* the local variables of the running routine

vars == <<pc, input, result, jpg, local>>

\* no JPEG object, no routine with locals
Idle == <<>>

(***************************************************************************)
(* JavaScript values                                                       *)
(***************************************************************************)

\* reading a Buffer or an Array outside its bounds yields undefined
Undefined == -1

\* undefined, where an object is looked for
UndefinedObject == <<>>

None == [ok |-> FALSE, err |-> "not called"]

Ok(v) == [ok |-> TRUE, val |-> v]

Throw(msg) == [ok |-> FALSE, err |-> msg]

Min(a, b) == IF a < b THEN a ELSE b

Max(a, b) == IF a > b THEN a ELSE b

\* buffer[k], k counted from 0
At(buffer, k) ==
    IF k >= 0 /\ k < Len(buffer) THEN buffer[k + 1] ELSE Undefined

\* ToInt32 of a value read from a buffer: undefined converts to 0
ToInt32(v) == IF v = Undefined THEN 0 ELSE v

Pow2(k) == 2 ^ k

\* the k low bits (k <= 31) of the 32-bit two's complement form of x
LowBits(x, k) ==
    IF k = 31
    THEN (IF x >= 0 THEN x ELSE (x + 2147483647) + 1)
    ELSE x % Pow2(k)

\* x << n on 32-bit integers (n in 0..31): bits shifted past bit 31 are lost
\* and bit 31 of the result is its sign
ShiftLeft32(x, n) ==
    IF n = 0 THEN x
    ELSE IF n = 31 THEN (IF x % 2 = 1 THEN (0 - 2147483647) - 1 ELSE 0)
    ELSE LET u    == LowBits(x, 32 - n)
             top  == u \div Pow2(31 - n)
             rest == u % Pow2(31 - n)
         IN  IF top = 1
             THEN ((rest * Pow2(n)) - 2147483647) - 1
             ELSE rest * Pow2(n)

RECURSIVE OrNat(_, _)
OrNat(a, b) ==
    IF a = 0 THEN b
    ELSE IF b = 0 THEN a
    ELSE (IF a % 2 = 1 \/ b % 2 = 1 THEN 1 ELSE 0) + 2 * OrNat(a \div 2, b \div 2)

RECURSIVE AndNat(_, _)
AndNat(a, b) ==
    IF a = 0 \/ b = 0 THEN 0
    ELSE (IF a % 2 = 1 /\ b % 2 = 1 THEN 1 ELSE 0) + 2 * AndNat(a \div 2, b \div 2)

\* a | b on 32-bit integers
BitOr32(a, b) ==
    LET low == OrNat(LowBits(a, 31), LowBits(b, 31))
    IN  IF a < 0 \/ b < 0 THEN (low - 2147483647) - 1 ELSE low

\* a & b on 32-bit integers
BitAnd32(a, b) ==
    LET low == AndNat(LowBits(a, 31), LowBits(b, 31))
    IN  IF a < 0 /\ b < 0 THEN (low - 2147483647) - 1 ELSE low

\* buffer.indexOf(value, from): the first index >= from holding value, or -1
RECURSIVE IndexOf(_, _, _)
IndexOf(buffer, value, from) ==
    IF from >= Len(buffer) THEN -1
    ELSE IF from >= 0 /\ buffer[from + 1] = value THEN from
    ELSE IndexOf(buffer, value, from + 1)

\* buffer.copy(buffer, targetStart, sourceStart, sourceEnd) onto itself:
\* the bytes move as by memmove, and no more than fit are copied
BufferCopy(buffer, targetStart, sourceStart, sourceEnd) ==
    LET nb == Min(sourceEnd - sourceStart, Len(buffer) - targetStart)
    IN  [k \in 1..Len(buffer) |->
            IF k - 1 >= targetStart /\ k - 1 < targetStart + nb
            THEN buffer[sourceStart + (k - 1 - targetStart) + 1]
            ELSE buffer[k]]

\* all sequences over S of length exactly n
RECURSIVE SeqsOfLen(_, _)
SeqsOfLen(S, n) ==
    IF n = 0 THEN {<<>>}
    ELSE {Append(s, x) : s \in SeqsOfLen(S, n - 1), x \in S}

\* all sequences over S of length at most n
SeqsUpTo(S, n) == UNION {SeqsOfLen(S, k) : k \in 0..n}

(***************************************************************************)
(* removeByteStuffing (src/jpeg.js)                                        *)
(***************************************************************************)

\* where the search for the next 0xFF starts, past the stuffed zero
SearchStart_KeepZero(ff) == ff + 1

SearchStart(ff) == ff + 2

RECURSIVE removeByteStuffingLoop(_, _, _)
removeByteStuffingLoop(buffer, ff, searchIndex) ==
    LET ff2 == IndexOf(buffer, 255, searchIndex)
    IN  IF ff2 = -1 \/ At(buffer, ff2 + 1) # 0
        THEN \* copy down the trailing bytes and trim the buffer
             LET copied == BufferCopy(buffer, ff + 1, searchIndex, Len(buffer))
             IN  SubSeq(copied, 1, ff + Len(buffer) - searchIndex + 1)
        ELSE \* copy down the next range, overwriting the unwanted zero
             removeByteStuffingLoop(
                 BufferCopy(buffer, ff + 1, searchIndex, ff2 + 1),
                 ff + ff2 - searchIndex + 1,
                 SearchStart(ff2))

removeByteStuffing(buffer) ==
    LET ff == IndexOf(buffer, 255, 0)
    IN  IF ff = -1 \/ At(buffer, ff + 1) # 0
        THEN buffer
        ELSE removeByteStuffingLoop(buffer, ff, SearchStart(ff))

\* the bytes the buffers of the byte-stuffing check are made of
StuffBytes == {0, 1, 2, 255}

MaxStuffLen == 5

InitStuff ==
    /\ pc = "call"
    /\ input \in [buffer : SeqsUpTo(StuffBytes, MaxStuffLen)]
    /\ result = None
    /\ jpg = Idle
    /\ local = Idle

CallRemoveByteStuffing ==
    /\ pc = "call"
    /\ result' = Ok(removeByteStuffing(input.buffer))
    /\ pc' = "done"
    /\ UNCHANGED <<input, jpg, local>>

NextStuff == CallRemoveByteStuffing

SpecStuff == InitStuff /\ [][NextStuff]_vars

\* every 0xFF 0x00 pair collapsed to 0xFF, scanning from the left
RECURSIVE Unstuffed(_)
Unstuffed(buffer) ==
    IF buffer = <<>> THEN <<>>
    ELSE IF Len(buffer) >= 2 /\ buffer[1] = 255 /\ buffer[2] = 0
    THEN <<255>> \o Unstuffed(SubSeq(buffer, 3, Len(buffer)))
    ELSE <<buffer[1]>> \o Unstuffed(Tail(buffer))

StuffedPairs(buffer) ==
    Cardinality({k \in 1..(Len(buffer) - 1) : buffer[k] = 255 /\ buffer[k + 1] = 0})

RemovesAllStuffing ==
    /\ result.val = Unstuffed(input.buffer)
    /\ Len(result.val) = Len(input.buffer) - StuffedPairs(input.buffer)

\* no 0xFF 0x00 pair stands after a 0xFF that is not followed by 0x00
StuffingLeads(buffer) ==
    \A k \in 1..Len(buffer) :
        (buffer[k] = 255 /\ (k = Len(buffer) \/ buffer[k + 1] # 0))
            => \A j \in (k + 1)..(Len(buffer) - 1) :
                   ~(buffer[j] = 255 /\ buffer[j + 1] = 0)

\* C10 as stated: removeByteStuffing applied to any buffer replaces every
\* 0xFF 0x00 pair by 0xFF, keeps all other bytes in order, and shortens the
\* buffer by the number of pairs.
C10_AnyBuffer ==
    pc = "done" => RemovesAllStuffing

\* C10 amended: the same, for every buffer in which no 0xFF 0x00 pair
\* stands after a 0xFF that is not followed by 0x00 (every buffer that
\* extractEntropyCodedSegment passes is one: each of its 0xFF is stuffed).
C10_StuffedBuffer ==
    (pc = "done" /\ StuffingLeads(input.buffer)) => RemovesAllStuffing

\* a buffer with two stuffed pairs and bytes after each has been unstuffed
C10_Witness ==
    /\ pc = "done"
    /\ StuffingLeads(input.buffer)
    /\ StuffedPairs(input.buffer) = 2
    /\ Len(result.val) = 3
    /\ result.val[3] # 255

(***************************************************************************)
(* readBits (src/jpeg.js)                                                  *)
(***************************************************************************)

\* the largest bit count readBits accepts
MaxReadBits == 32

\* while (nBits >= 8): result = (result << 8) | buffer[index++]
RECURSIVE readWholeBytes(_, _, _, _)
readWholeBytes(buffer, index, nBits, value) ==
    IF nBits >= 8
    THEN readWholeBytes(buffer, index + 1, nBits - 8,
                        BitOr32(ShiftLeft32(value, 8), ToInt32(At(buffer, index))))
    ELSE <<index, nBits, value>>

\* the whole bytes, then the bits needed from the first part of the next byte
readBitsAligned(buffer, index, bitIndex, nBits, value) ==
    LET whole == readWholeBytes(buffer, index, nBits, value)
        idx   == whole[1]
        rest  == whole[2]
        val   == whole[3]
    IN  IF rest # 0
        THEN Ok(<<idx, rest,
                  BitOr32(ShiftLeft32(val, rest),
                          ToInt32(At(buffer, idx)) \div Pow2(8 - rest))>>)
        ELSE Ok(<<idx, bitIndex, val>>)

\* returns <<index, bitIndex, value>>
readBits(buffer, index, bitIndex, nBits) ==
    IF nBits > MaxReadBits
    THEN Throw("readBits can only return up to 32 bits at a time")
    ELSE IF bitIndex # 0
    THEN IF 8 - bitIndex >= nBits
         THEN LET value == BitAnd32(ToInt32(At(buffer, index)) \div Pow2(8 - bitIndex - nBits),
                                    Pow2(nBits) - 1)
              IN  IF bitIndex + nBits = 8
                  THEN Ok(<<index + 1, 0, value>>)
                  ELSE Ok(<<index, bitIndex + nBits, value>>)
         ELSE readBitsAligned(buffer, index + 1, 0, nBits - (8 - bitIndex),
                              BitAnd32(ToInt32(At(buffer, index)), Pow2(8 - bitIndex) - 1))
    ELSE readBitsAligned(buffer, index, 0, nBits, 0)

\* the bytes the buffers of the bit reader's check are made of (0xA6, 0x35)
BitsBytes == {166, 53}

MaxBitsLen == 5

InitBits ==
    /\ pc = "call"
    /\ input \in {[buffer |-> b, index |-> i, bitIndex |-> bi, nBits |-> n] :
                    b \in SeqsUpTo(BitsBytes, MaxBitsLen),
                    i \in 0..MaxBitsLen, bi \in 0..7, n \in 0..(MaxReadBits + 1)}
    /\ input.index <= Len(input.buffer)
    /\ result = None
    /\ jpg = Idle
    /\ local = Idle

CallReadBits ==
    /\ pc = "call"
    /\ result' = readBits(input.buffer, input.index, input.bitIndex, input.nBits)
    /\ pc' = "done"
    /\ UNCHANGED <<input, jpg, local>>

NextBits == CallReadBits

SpecBits == InitBits /\ [][NextBits]_vars

\* bit k of the buffer, bit 0 being the most significant bit of byte 0
BufBit(buffer, k) == (buffer[(k \div 8) + 1] \div Pow2(7 - (k % 8))) % 2

\* bit j (bit 0 the least significant) of a non-negative 32-bit value
ValueBit(v, j) == IF j >= 31 THEN 0 ELSE (v \div Pow2(j)) % 2

\* the first bit position requested and the position after the last one
BitsFrom == 8 * input.index + input.bitIndex

BitsInside ==
    /\ input.nBits <= MaxReadBits
    /\ BitsFrom + input.nBits <= 8 * Len(input.buffer)

\* value is the unsigned big-endian integer formed by the n requested bits
UnsignedValueRead ==
    /\ result.val[3] >= 0
    /\ \A k \in 0..(input.nBits - 1) :
           ValueBit(result.val[3], input.nBits - 1 - k) = BufBit(input.buffer, BitsFrom + k)
    /\ \A j \in input.nBits..31 : ValueBit(result.val[3], j) = 0

CursorAdvanced ==
    /\ 8 * result.val[1] + result.val[2] = BitsFrom + input.nBits
    /\ result.val[2] \in 0..7

\* C3 as stated: for n in 0..32 with all requested bits inside the buffer,
\* readBits returns the cursor advanced by n bits (bit index in 0..7) and
\* the unsigned big-endian n-bit integer that starts at the cursor; for n = 0
\* that is 0 with the cursor unchanged.
C3_ReadBits ==
    (pc = "done" /\ BitsInside) =>
        /\ result.ok
        /\ CursorAdvanced
        /\ UnsignedValueRead
        /\ (input.nBits = 0 =>
               result.val = <<input.index, input.bitIndex, 0>>)

(***************************************************************************)
(* readHuffmanTable (src/jpeg.js)                                          *)
(* A bit string is a sequence of 0s and 1s; a code map is the sequence of  *)
(* its entries [code, sym] in insertion order (a JavaScript Map).          *)
(***************************************************************************)

\* n.toString(2): the binary digits of n >= 0 without leading zeros
RECURSIVE ToBinary(_)
ToBinary(n) ==
    IF n < 2 THEN <<n>> ELSE Append(ToBinary(n \div 2), n % 2)

\* str.padStart(len, '0'): zeros in front up to len; a longer string is kept
RECURSIVE PadStart(_, _)
PadStart(str, len) ==
    IF Len(str) >= len THEN str ELSE PadStart(<<0>> \o str, len)

\* codes.set(key, value): a new key goes last, a present key keeps its place
MapSet(codes, key, value) ==
    IF \E k \in 1..Len(codes) : codes[k].code = key
    THEN [k \in 1..Len(codes) |->
             IF codes[k].code = key THEN [code |-> key, sym |-> value] ELSE codes[k]]
    ELSE Append(codes, [code |-> key, sym |-> value])

\* the bit string of the next code of length codeLen
CodeString_Unpadded(nextCode, codeLen) == ToBinary(nextCode)

CodeString(nextCode, codeLen) == PadStart(ToBinary(nextCode), codeLen)

\* while (nCodes-- > 0): one code per symbol, in listed order
RECURSIVE assignCodes(_, _, _, _, _, _)
assignCodes(buffer, codes, nextCode, nextValueIndex, nCodes, codeLen) ==
    IF nCodes > 0
    THEN assignCodes(buffer,
                     MapSet(codes, CodeString(nextCode, codeLen), At(buffer, nextValueIndex)),
                     nextCode + 1, nextValueIndex + 1, nCodes - 1, codeLen)
    ELSE <<codes, nextCode, nextValueIndex>>

\* for (codeLen = 1; codeLen <= 16; codeLen++)
RECURSIVE readCodeLengths(_, _, _, _, _, _)
readCodeLengths(buffer, index, codes, nextCode, nextValueIndex, codeLen) ==
    IF codeLen <= 16
    THEN LET done == assignCodes(buffer, codes, nextCode, nextValueIndex,
                                 At(buffer, index + codeLen), codeLen)
         IN  readCodeLengths(buffer, index, done[1], ShiftLeft32(done[2], 1),
                             done[3], codeLen + 1)
    ELSE <<codes, nextValueIndex>>

readHuffmanTable(buffer, index) ==
    LET read == readCodeLengths(buffer, index, <<>>, 0, index + 17, 1)
    IN  [type   |-> ToInt32(At(buffer, index)) \div 16,
         number |-> ToInt32(At(buffer, index)) % 16,
         codes  |-> read[1],
         start  |-> index,
         end    |-> read[2]]

\* the longest code length with a free count in the tables of the check
MaxTableLen == 3

\* the largest count of codes of one length in the tables of the check
MaxPerLen == 3

\* the table of T.81 K.3.3.1: its 16 counts and its 12 symbols
K331Counts == <<0, 1, 5, 1, 1, 1, 1, 1, 1, 0, 0, 0, 0, 0, 0, 0>>

TableCounts ==
    {K331Counts} \cup
    {[len \in 1..16 |-> IF len <= MaxTableLen THEN c[len] ELSE 0] :
        c \in [1..MaxTableLen -> 0..MaxPerLen]}

RECURSIVE SumTo(_, _)
SumTo(counts, n) == IF n = 0 THEN 0 ELSE counts[n] + SumTo(counts, n - 1)

\* a DHT table definition: Tc/Th, the 16 counts, one symbol per code
TableBytes(tcth, counts, first) ==
    <<tcth>> \o counts \o [k \in 1..SumTo(counts, 16) |-> (first + k - 1) % 256]

InitTable ==
    /\ pc = "call"
    /\ input \in {[buffer |-> lead \o TableBytes(tcth, counts, first),
                   index  |-> Len(lead),
                   counts |-> counts,
                   first  |-> first] :
                    lead \in {<<>>, <<255, 196>>},
                    tcth \in {0, 17, 19},
                    counts \in TableCounts,
                    first \in {0, 250}}
    /\ result = None
    /\ jpg = Idle
    /\ local = Idle

CallReadHuffmanTable ==
    /\ pc = "call"
    /\ result' = Ok(readHuffmanTable(input.buffer, input.index))
    /\ pc' = "done"
    /\ UNCHANGED <<input, jpg, local>>

NextTable == CallReadHuffmanTable

SpecTable == InitTable /\ [][NextTable]_vars

\* the value v written with exactly len bits, most significant first
FixedBits(v, len) == [k \in 1..len |-> (v \div Pow2(len - k)) % 2]

\* nextCode when the codes of length len are assigned:
\* 0 for len = 1, then (nextCode + L_len) shifted left by one
RECURSIVE FirstCode(_, _)
FirstCode(counts, len) ==
    IF len = 1 THEN 0
    ELSE (FirstCode(counts, len - 1) + counts[len - 1]) * 2

\* the length of the j-th listed symbol
RECURSIVE LengthOf(_, _, _)
LengthOf(counts, j, len) ==
    IF j <= SumTo(counts, len) THEN len ELSE LengthOf(counts, j, len + 1)

CanonicalEntry(counts, first, j) ==
    LET len == LengthOf(counts, j, 1)
        r   == j - SumTo(counts, len - 1) - 1
    IN  [code |-> FixedBits(FirstCode(counts, len) + r, len),
         sym  |-> (first + j - 1) % 256]

CanonicalCodes(counts, first) ==
    [j \in 1..SumTo(counts, 16) |-> CanonicalEntry(counts, first, j)]

\* the codes of every length fit in that many bits
CountsFit(counts) ==
    \A len \in 1..16 :
        counts[len] > 0 => FirstCode(counts, len) + counts[len] <= Pow2(len)

K331Codes ==
    << <<0,0>>, <<0,1,0>>, <<0,1,1>>, <<1,0,0>>, <<1,0,1>>, <<1,1,0>>, <<1,1,1,0>>,
       <<1,1,1,1,0>>, <<1,1,1,1,1,0>>, <<1,1,1,1,1,1,0>>, <<1,1,1,1,1,1,1,0>>,
       <<1,1,1,1,1,1,1,1,0>> >>

CanonicalTableRead ==
    /\ result.val.codes = CanonicalCodes(input.counts, input.first)
    /\ Len(result.val.codes) = SumTo(input.counts, 16)
    /\ \A j \in 1..Len(result.val.codes) :
           Len(result.val.codes[j].code) = LengthOf(input.counts, j, 1)
    /\ (input.counts = K331Counts /\ input.first = 0) =>
           result.val.codes = [j \in 1..12 |-> [code |-> K331Codes[j], sym |-> j - 1]]

StartsWith(bitstring, code) ==
    /\ Len(code) <= Len(bitstring)
    /\ SubSeq(bitstring, 1, Len(code)) = code

\* bitstring.slice(n)
Slice(bitstring, n) == SubSeq(bitstring, n + 1, Len(bitstring))

\* prefixes.get(prefix): state numbers are given in insertion order from 0
prefixesGet(prefixes, prefix) ==
    IF \E n \in 1..Len(prefixes) : prefixes[n] = prefix
    THEN (CHOOSE n \in 1..Len(prefixes) : prefixes[n] = prefix) - 1
    ELSE Undefined

\* for (i = 1; i < key.length; i++) if (!prefixes.has(prefix)) prefixes.set(...)
RECURSIVE keyPrefixes(_, _, _)
keyPrefixes(prefixes, key, i) ==
    IF i < Len(key)
    THEN IF prefixesGet(prefixes, SubSeq(key, 1, i)) = Undefined
         THEN keyPrefixes(Append(prefixes, SubSeq(key, 1, i)), key, i + 1)
         ELSE keyPrefixes(prefixes, key, i + 1)
    ELSE prefixes

\* for (var key of table.keys()): the prefixes of the first k keys, '' first
RECURSIVE numberStates(_, _)
numberStates(table, k) ==
    IF k = 0 THEN << <<>> >>
    ELSE keyPrefixes(numberStates(table, k - 1), table[k].code, 1)

\* buildEmit: strip the codes that lead bitstring, first match in table order
RECURSIVE buildEmit(_, _, _, _)
buildEmit(table, bitstring, emit, firstLen) ==
    LET matches == {k \in 1..Len(table) : StartsWith(bitstring, table[k].code)}
    IN  IF matches = {}
        THEN [emit |-> emit, rest |-> bitstring, firstLen |-> firstLen]
        ELSE LET k    == CHOOSE m \in matches : \A o \in matches : m <= o
                 code == table[k].code
             IN  buildEmit(table, Slice(bitstring, Len(code)),
                           Append(emit, table[k].sym),
                           IF emit = <<>> THEN Len(code) ELSE firstLen)

\* the bits a state sees on a nibble: what it carries, then the input
NibbleString_NoCarry(prefix, nibble) == nibble

NibbleString(prefix, nibble) == prefix \o nibble

\* bits of the input used up by the first symbol recognised
ConsumedBits_WholeCode(codeLength, prefix) == codeLength

ConsumedBits(codeLength, prefix) == codeLength - Len(prefix)

\* the state of a prefix: its row for each of the 16 inputs
prefixState(table, prefixes, n) ==
    LET prefix   == prefixes[n + 1]
        built(i) == buildEmit(table, NibbleString(prefix, PadStart(ToBinary(i), 4)),
                              <<>>, Undefined)
    IN  [number   |-> n,
         prefix   |-> prefix,
         emit     |-> [i \in 0..15 |-> built(i).emit],
         goto     |-> [i \in 0..15 |-> prefixesGet(prefixes, built(i).rest)],
         bitIndex |-> [i \in 0..15 |->
                          IF built(i).firstLen = Undefined THEN Undefined
                          ELSE ConsumedBits(built(i).firstLen, prefix)]]

\* the special state for nBits extra bits at the beginning of the input
extraBitsState(table, prefixes, nBits) ==
    LET built(i) == buildEmit(table, PadStart(ToBinary(i), nBits), <<>>, Undefined)
    IN  [emit     |-> [i \in 0..15 |-> IF i < Pow2(nBits) THEN built(i).emit ELSE Undefined],
         goto     |-> [i \in 0..15 |->
                          IF i < Pow2(nBits) THEN prefixesGet(prefixes, built(i).rest)
                          ELSE Undefined],
         bitIndex |-> [i \in 0..15 |-> IF i < Pow2(nBits) THEN built(i).firstLen ELSE Undefined]]

prepareDecoder(table) ==
    LET prefixes    == numberStates(table, Len(table))
        stateNumber == Len(prefixes)
        length      == stateNumber + 3
    IN  [n \in 1..length |->
            IF n <= stateNumber
            THEN prefixState(table, prefixes, n - 1)
            ELSE extraBitsState(table, prefixes, length - (n - 1))]

\* goto undefined: the last byte may be padded
LastByte(position, end) == ~(position < end - 1)

RECURSIVE decodeBufferLoop(_, _, _, _, _, _)
decodeBufferLoop(buffer, position, end, decoder, state, emitted) ==
    IF position < end
    THEN LET value   == ToInt32(At(buffer, position))
             high    == value \div 16
             low     == value % 16
             result1 == emitted \o state.emit[high]
             goto1   == state.goto[high]
         IN  IF goto1 = Undefined
             THEN IF LastByte(position, end) THEN Ok(result1)
                  ELSE Throw("Invalid input to Huffman decoder")
             ELSE LET state1  == decoder[goto1 + 1]
                      result2 == result1 \o state1.emit[low]
                      goto2   == state1.goto[low]
                  IN  IF goto2 = Undefined
                      THEN IF LastByte(position, end) THEN Ok(result2)
                           ELSE Throw("Invalid input to Huffman decoder")
                      ELSE decodeBufferLoop(buffer, position + 1, end, decoder,
                                            decoder[goto2 + 1], result2)
    ELSE Ok(emitted)

decodeBuffer(buffer, start, end, decoder) ==
    decodeBufferLoop(buffer, start, end, decoder, decoder[1], <<>>)

\* goto undefined while one symbol is looked for
noTransition(position, end) ==
    IF LastByte(position, end) THEN Throw("End of input (reached padding)")
    ELSE Throw("Invalid input to Huffman decoder")

\* return [position, bitIndex % 8, emit[0]], position stepped when bitIndex == 8
symbolAt(position, bitIndex, emit) ==
    Ok(<<IF bitIndex = 8 THEN position + 1 ELSE position, bitIndex % 8, emit[1]>>)

\* while (position < end): full bytes, until a symbol is recognised
RECURSIVE decodeOneBytes(_, _, _, _, _)
decodeOneBytes(buffer, position, end, decoder, state) ==
    IF position < end
    THEN LET value == ToInt32(At(buffer, position))
             high  == value \div 16
             low   == value % 16
         IN  IF Len(state.emit[high]) > 0
             THEN Ok(<<position, state.bitIndex[high], state.emit[high][1]>>)
             ELSE IF state.goto[high] = Undefined
             THEN noTransition(position, end)
             ELSE LET state1 == decoder[state.goto[high] + 1]
                  IN  IF Len(state1.emit[low]) > 0
                      THEN symbolAt(position, state1.bitIndex[low] + 4, state1.emit[low])
                      ELSE IF state1.goto[low] = Undefined
                      THEN noTransition(position, end)
                      ELSE decodeOneBytes(buffer, position + 1, end, decoder,
                                          decoder[state1.goto[low] + 1])
    ELSE Throw("No more input")

\* if (bitIndex <= 4): the remaining 4 bits of the first byte, then full bytes
decodeOneLowNibble(buffer, position, end, bitIndex, decoder, state) ==
    LET low == ToInt32(At(buffer, position)) % 16
    IN  IF bitIndex <= 4
        THEN IF Len(state.emit[low]) > 0
             THEN symbolAt(position, 4 + state.bitIndex[low], state.emit[low])
             ELSE IF state.goto[low] = Undefined
             THEN noTransition(position, end)
             ELSE decodeOneBytes(buffer, position + 1, end, decoder,
                                 decoder[state.goto[low] + 1])
        ELSE decodeOneBytes(buffer, position + 1, end, decoder, state)

decodeOne(buffer, start, end, bitIndex, decoder) ==
    IF decoder = UndefinedObject
    THEN Throw("TypeError")
    ELSE IF bitIndex # 0 /\ start < end
    THEN LET value == ToInt32(At(buffer, start))
             nBits == 4 - (bitIndex % 4)
         IN  IF nBits # 0 /\ nBits < 4
             THEN LET state == decoder[Len(decoder) - nBits + 1]
                      bits  == (IF bitIndex < 4 THEN value \div 16 ELSE value) % Pow2(nBits)
                  IN  IF Len(state.emit[bits]) > 0
                      THEN symbolAt(start, bitIndex + state.bitIndex[bits], state.emit[bits])
                      ELSE IF state.goto[bits] = Undefined
                      THEN noTransition(start, end)
                      ELSE decodeOneLowNibble(buffer, start, end, bitIndex, decoder,
                                              decoder[state.goto[bits] + 1])
             ELSE decodeOneLowNibble(buffer, start, end, bitIndex, decoder, decoder[1])
    ELSE decodeOneBytes(buffer, start, end, decoder, decoder[1])

\* the longest buffer of the byte strings of the check
MaxHuffLen == 3

HuffBytes == {0, 78, 166, 255}

\* counts of tables whose codes fit: K.3.3.1, one code of every length 1..16,
\* an incomplete code, two complete codes
HuffCounts ==
    {K331Counts,
     [len \in 1..16 |-> 1],
     [len \in 1..16 |-> IF len \in {2, 3} THEN 2 ELSE 0],
     [len \in 1..16 |-> IF len = 1 THEN 2 ELSE 0],
     [len \in 1..16 |-> IF len = 1 THEN 1 ELSE IF len = 3 THEN 4 ELSE 0]}

\* the code maps of those tables, and one map that is not in canonical order
HuffTables ==
    {readHuffmanTable(TableBytes(0, counts, 1), 0).codes : counts \in HuffCounts}
    \cup {<< [code |-> <<1>>, sym |-> 7], [code |-> <<0, 0, 1>>, sym |-> 9],
             [code |-> <<0, 1>>, sym |-> 3] >>}

\* the bytes of a bit string whose length is a multiple of 8
PackBytes(bits) ==
    [j \in 1..(Len(bits) \div 8) |->
        bits[8 * j - 7] * 128 + bits[8 * j - 6] * 64 + bits[8 * j - 5] * 32
        + bits[8 * j - 4] * 16 + bits[8 * j - 3] * 8 + bits[8 * j - 2] * 4
        + bits[8 * j - 1] * 2 + bits[8 * j]]

\* a code placed bitIndex bits into a buffer, filled up to whole bytes
PlacedCode(code, bitIndex, leadBit, fillBit) ==
    LET used == bitIndex + Len(code)
        size == 8 * ((used + 7) \div 8)
    IN  PackBytes([k \in 1..size |->
                      IF k <= bitIndex THEN leadBit
                      ELSE IF k <= used THEN code[k - bitIndex]
                      ELSE fillBit])

HuffBuffers == SeqsUpTo(HuffBytes, MaxHuffLen)

InitHuff ==
    /\ pc = "prepare"
    /\ input \in {[table |-> table] : table \in HuffTables}
    /\ result = None
    /\ jpg = Idle
    /\ local = Idle

PrepareDecoder ==
    /\ pc = "prepare"
    /\ input' = [table |-> input.table, decoder |-> prepareDecoder(input.table)]
    /\ pc' = "ready"
    /\ UNCHANGED <<result, jpg, local>>

CallDecodeBuffer ==
    /\ pc = "ready"
    /\ \E buffer \in HuffBuffers :
       \E start \in 0..Min(1, Len(buffer)) :
       \E end \in Max(start, Len(buffer) - 1)..Len(buffer) :
          /\ input' = [table |-> input.table, decoder |-> input.decoder,
                       buffer |-> buffer, start |-> start, end |-> end, bitIndex |-> 0]
          /\ result' = decodeBuffer(buffer, start, end, input.decoder)
    /\ pc' = "decodeBuffer"
    /\ UNCHANGED <<jpg, local>>

CallDecodeOne ==
    /\ pc = "ready"
    /\ \E buffer \in HuffBuffers :
       \E start \in 0..Min(1, Len(buffer)) :
       \E end \in Max(start, Len(buffer) - 1)..Len(buffer) :
       \E bitIndex \in 0..7 :
          /\ input' = [table |-> input.table, decoder |-> input.decoder,
                       buffer |-> buffer, start |-> start, end |-> end,
                       bitIndex |-> bitIndex]
          /\ result' = decodeOne(buffer, start, end, bitIndex, input.decoder)
    /\ pc' = "decodeOne"
    /\ UNCHANGED <<jpg, local>>

\* decodeOne where a code of the table starts at the bit offset
CallDecodeOnePlaced ==
    /\ pc = "ready"
    /\ \E k \in 1..Len(input.table) :
       \E bitIndex \in 0..7 :
       \E leadBit \in {0, 1} :
       \E fillBit \in {0, 1} :
          LET buffer == PlacedCode(input.table[k].code, bitIndex, leadBit, fillBit)
          IN  /\ input' = [table |-> input.table, decoder |-> input.decoder,
                           buffer |-> buffer, start |-> 0, end |-> Len(buffer),
                           bitIndex |-> bitIndex]
              /\ result' = decodeOne(buffer, 0, Len(buffer), bitIndex, input.decoder)
    /\ pc' = "decodeOne"
    /\ UNCHANGED <<jpg, local>>

NextHuff ==
    \/ PrepareDecoder
    \/ CallDecodeBuffer
    \/ CallDecodeOne
    \/ CallDecodeOnePlaced

SpecHuff == InitHuff /\ [][NextHuff]_vars

\* the bits of buffer[start .. end), most significant first
BufferBits(buffer, start, end) ==
    [k \in 1..(8 * (end - start)) |-> BufBit(buffer, 8 * start + k - 1)]

IsCode(table, bits) == \E k \in 1..Len(table) : table[k].code = bits

IsCodePrefix(table, bits) ==
    \E k \in 1..Len(table) : StartsWith(table[k].code, bits)

SymbolOf(table, bits) ==
    table[CHOOSE k \in 1..Len(table) : table[k].code = bits].sym

\* the naive decoder: one bit at a time down the code tree, a symbol when the
\* bits gathered are a code, then from the root again; stuck at the bit that
\* leaves the tree
RECURSIVE NaiveDecode(_, _, _, _, _)
NaiveDecode(table, bits, k, walked, symbols) ==
    IF k > Len(bits)
    THEN [symbols |-> symbols, stuck |-> FALSE, at |-> Len(bits)]
    ELSE LET now == Append(walked, bits[k])
         IN  IF IsCode(table, now)
             THEN NaiveDecode(table, bits, k + 1, <<>>, Append(symbols, SymbolOf(table, now)))
             ELSE IF IsCodePrefix(table, now)
             THEN NaiveDecode(table, bits, k + 1, now, symbols)
             ELSE [symbols |-> symbols, stuck |-> TRUE, at |-> k - 1]

NaiveResult ==
    NaiveDecode(input.table, BufferBits(input.buffer, input.start, input.end), 1, <<>>, <<>>)

\* C1: on every byte string and every prefix-free table decodeBuffer returns
\* the symbols of the naive one-bit-at-a-time decoder (up to the padding of
\* the last byte), and it fails exactly when the naive decoder leaves the
\* code tree before the last byte.
C1_DfaIsNaive ==
    pc = "decodeBuffer" =>
        IF NaiveResult.stuck /\ NaiveResult.at \div 8 < input.end - input.start - 1
        THEN ~result.ok
        ELSE result = Ok(NaiveResult.symbols)

\* codes that cross nibbles and bytes, decoded from the second byte on
C1_Witness ==
    /\ pc = "decodeBuffer"
    /\ input.start = 1 /\ input.end = 3
    /\ result.ok
    /\ Len(result.val) >= 3
    /\ \E k \in 1..Len(input.table) :
          /\ Len(input.table[k].code) >= 7
          /\ \E j \in 1..Len(result.val) : result.val[j] = input.table[k].sym
    /\ C1_DfaIsNaive

\* the bits from the cursor (start, bitIndex) to the end of the input
BitsAtCursor ==
    Slice(BufferBits(input.buffer, input.start, input.end), input.bitIndex)

\* C2: for every bit offset 0..7 and every code of 1 to 16 bits, when a code
\* of the table starts at the cursor decodeOne returns its symbol and the
\* cursor exactly that many bits later.
C2_DecodeOne ==
    pc = "decodeOne" =>
        \A k \in 1..Len(input.table) :
            StartsWith(BitsAtCursor, input.table[k].code) =>
                LET after == 8 * input.start + input.bitIndex + Len(input.table[k].code)
                IN  result = Ok(<<after \div 8, after % 8, input.table[k].sym>>)

\* a 16-bit code at bit offset 7: the cursor ends at bit 7 of the third byte
C2_Witness ==
    /\ pc = "decodeOne"
    /\ input.bitIndex = 7
    /\ \E k \in 1..Len(input.table) :
          /\ Len(input.table[k].code) = 16
          /\ StartsWith(BitsAtCursor, input.table[k].code)
          /\ result = Ok(<<2, 7, input.table[k].sym>>)

(***************************************************************************)
(* handleFrameHeader, the painting loop of fromBytes, paintPixels          *)
(* (src/jpeg.js).  The raster is kept as the number of writes each of its  *)
(* bytes has received; writes to an index outside the Buffer, which        *)
(* JavaScript drops, are kept in local.outside.                            *)
(***************************************************************************)

\* Math.ceil(a / b) for a >= 0, b > 0
CeilDiv(a, b) == (a + b - 1) \div b

RECURSIVE MaxOver(_, _, _)
MaxOver(components, field, k) ==
    IF k = 0 THEN 0 ELSE Max(MaxOver(components, field, k - 1), components[k][field])

\* the remainder of 2^s divided by h
RECURSIVE Pow2Mod(_, _)
Pow2Mod(s, h) == IF s = 0 THEN 1 % h ELSE (2 * Pow2Mod(s - 1, h)) % h

\* the position of the leading bit of n >= 1
RECURSIVE leadingBit(_)
leadingBit(n) == IF n < 2 THEN 0 ELSE 1 + leadingBit(n \div 2)

\* max / sampling as a double is M * 2^-s with a 53-bit M, s = 52 - (leading
\* bit of the quotient); the remainder max * 2^s mod sampling is what the
\* division leaves out when it rounds down
quotientRemainder(max, sampling) ==
    (max * Pow2Mod(52 - leadingBit(max \div sampling), sampling)) % sampling

\* the double size / (8 * (max / sampling)) is above the integer n that size
\* * sampling / (8 * max) is exactly: the divisor was rounded down by
\* remainder / sampling units of its last place, and the quotient is above n
\* by more than half a unit of the last place of n
quotientAbove(n, max, sampling, remainder) ==
    /\ 0 < 2 * remainder /\ 2 * remainder < sampling
    /\ IF 1 + leadingBit(max \div sampling) >= leadingBit(n)
       THEN n * remainder * Pow2((1 + leadingBit(max \div sampling)) - leadingBit(n)) >= max
       ELSE n * remainder >= max * Pow2(leadingBit(n) - (1 + leadingBit(max \div sampling)))

\* Math.ceil(size / (8 * (max / sampling))) in double arithmetic; the
\* rounding of max / sampling matters only where the exact quotient is an
\* integer
ceilOfQuotient_Exact(size, max, sampling) == CeilDiv(size * sampling, 8 * max)

ceilOfQuotient(size, max, sampling) ==
    IF sampling = 0 \/ size = 0 \/ (size * sampling) % (8 * max) # 0
    THEN CeilDiv(size * sampling, 8 * max)
    ELSE IF quotientAbove((size * sampling) \div (8 * max), max, sampling,
                          quotientRemainder(max, sampling))
    THEN ((size * sampling) \div (8 * max)) + 1
    ELSE (size * sampling) \div (8 * max)

\* the fields handleFrameHeader sets from the frame header it has read; the
\* block width 8 * (max / sampling) of a component is kept as <<8 * max, sampling>>
handleFrameHeader(frameData) ==
    LET maxHorizSampling == MaxOver(frameData.components, "horizSampling",
                                    Len(frameData.components))
        maxVertSampling  == MaxOver(frameData.components, "vertSampling",
                                    Len(frameData.components))
        mcuPixelWidth    == 8 * maxHorizSampling
        mcuPixelHeight   == 8 * maxVertSampling
        mcusPerRow       == CeilDiv(frameData.width, mcuPixelWidth)
    IN  [frameData        |->
            [frameData EXCEPT !.components =
                [k \in 1..Len(frameData.components) |->
                    LET component == frameData.components[k]
                    IN  [blockPixelWidth  |-> <<8 * maxHorizSampling, component.horizSampling>>,
                         blockPixelHeight |-> <<8 * maxVertSampling, component.vertSampling>>,
                         blocksPerRow  |-> ceilOfQuotient(frameData.width, maxHorizSampling,
                                                          component.horizSampling),
                         blocksPerCol  |-> ceilOfQuotient(frameData.height, maxVertSampling,
                                                          component.vertSampling)]
                        @@ component]],
         maxHorizSampling |-> maxHorizSampling,
         maxVertSampling  |-> maxVertSampling,
         mcuPixelWidth    |-> mcuPixelWidth,
         mcuPixelHeight   |-> mcuPixelHeight,
         mcusPerRow       |-> mcusPerRow,
         totalMcus        |-> mcusPerRow * CeilDiv(frameData.height, mcuPixelHeight)]

\* xEnd, yEnd: the MCU cut at the edge of the image
EdgeEnd_Uncut(start, size, limit) == start + size

EdgeEnd(start, size, limit) == Min(start + size, limit)

\* the area of the raster an MCU covers
mcuArea(this, mcuNumber) ==
    LET perRow == CeilDiv(this.frameData.width, this.mcuPixelWidth)
        xStart == (mcuNumber % perRow) * this.mcuPixelWidth
        yStart == (mcuNumber \div perRow) * this.mcuPixelHeight
    IN  [xStart |-> xStart,
         yStart |-> yStart,
         xEnd   |-> EdgeEnd(xStart, this.mcuPixelWidth, this.frameData.width),
         yEnd   |-> EdgeEnd(yStart, this.mcuPixelHeight, this.frameData.height)]

\* rasterIndex of the sample (x, y) of the MCU
rasterIndex(this, area, x, y) ==
    (((y + area.yStart) * this.frameData.width) + x + area.xStart) * 3

\* how often paintGrayscalePixels / paintYCbCrPixels write raster[index]:
\* once for each (x, y) of their loops with rasterIndex + 0, 1 or 2 = index
paintWrites(this, area, index) ==
    LET pixel == index \div 3
    IN  Cardinality({y \in 0..(area.yEnd - area.yStart - 1) :
            LET x == pixel - ((y + area.yStart) * this.frameData.width) - area.xStart
            IN  x >= 0 /\ x < area.xEnd - area.xStart})

\* the indices the loops write
paintIndices(this, area) ==
    {rasterIndex(this, area, x, y) + c :
        x \in 0..(area.xEnd - area.xStart - 1),
        y \in 0..(area.yEnd - area.yStart - 1),
        c \in 0..2}

paintPixels(this, raster, mcuNumber) ==
    LET area == mcuArea(this, mcuNumber)
    IN  IF Len(this.frameData.components) \in {1, 3}
        THEN Ok([raster  |-> [k \in 1..Len(raster) |->
                                 raster[k] + paintWrites(this, area, k - 1)],
                 outside |-> {index \in paintIndices(this, area) :
                                 index < 0 \/ index >= Len(raster)}])
        ELSE Throw("Unknown color space")

\* the largest width and height of the frames of the check
MaxDim == 17

\* the largest sampling factor of the frames of the check
MaxSampling == 2

\* the most components of the frames of the check
MaxComponents == 3

FrameHeaders ==
    {[width  |-> width,
      height |-> height,
      components |-> [k \in 1..nf |->
          [id |-> k,
           horizSampling |-> IF k = 1 THEN h ELSE 1,
           vertSampling  |-> IF k = 1 THEN v ELSE 1]]] :
        width \in 1..MaxDim, height \in 1..MaxDim,
        nf \in 1..MaxComponents, h \in 1..MaxSampling, v \in 1..MaxSampling}

\* a frame header has been read; const raster = Buffer.alloc(3 * width * height)
InitPaint ==
    /\ pc = "paint"
    /\ input \in FrameHeaders
    /\ result = None
    /\ jpg = handleFrameHeader(input)
    /\ local = [mcuNumber |-> 0,
                raster    |-> [k \in 1..(3 * input.width * input.height) |-> 0],
                outside   |-> {}]

\* one turn of for (mcuNumber = 0; mcuNumber < jpg.totalMcus; mcuNumber++)
PaintMcu ==
    /\ pc = "paint"
    /\ local.mcuNumber < jpg.totalMcus
    /\ LET painted == paintPixels(jpg, local.raster, local.mcuNumber)
       IN  IF painted.ok
           THEN /\ local' = [mcuNumber |-> local.mcuNumber + 1,
                             raster    |-> painted.val.raster,
                             outside   |-> local.outside \cup painted.val.outside]
                /\ UNCHANGED <<pc, result>>
           ELSE /\ pc' = "thrown"
                /\ result' = painted
                /\ UNCHANGED local
    /\ UNCHANGED <<input, jpg>>

\* return [jpg, raster]
ReturnRaster ==
    /\ pc = "paint"
    /\ ~(local.mcuNumber < jpg.totalMcus)
    /\ pc' = "returned"
    /\ result' = Ok(Len(local.raster))
    /\ UNCHANGED <<input, jpg, local>>

NextPaint == PaintMcu \/ ReturnRaster

SpecPaint == InitPaint /\ [][NextPaint]_vars

\* C9: the returned raster has exactly 3*W*H bytes, every index written lies
\* in 0..3*W*H-1 (at every step of the painting), no byte is written twice,
\* and at the return every byte of every pixel (x, y) with x < W, y < H has
\* been written exactly once, so by exactly one MCU.
C9_Raster ==
    pc \in {"paint", "returned"} =>
        /\ Len(local.raster) = 3 * input.width * input.height
        /\ local.outside = {}
        /\ \A k \in 1..Len(local.raster) : local.raster[k] <= 1
        /\ pc = "returned" =>
              /\ result = Ok(3 * input.width * input.height)
              /\ \A k \in 1..Len(local.raster) : local.raster[k] = 1

\* a 17 x 13 frame with 16 x 8 MCUs: four MCUs, cut at the right and bottom
C9_Witness ==
    /\ pc = "returned"
    /\ input.width = 17 /\ input.height = 13
    /\ jpg.mcuPixelWidth = 16 /\ jpg.mcuPixelHeight = 8
    /\ local.mcuNumber = 4
    /\ Len(input.components) = 3
    /\ \A k \in 1..Len(local.raster) : local.raster[k] = 1

(***************************************************************************)
(* The marker loop of fromBytes and the segment handlers (src/jpeg.js).    *)
(* A JavaScript array that may have holes is a function from the indices   *)
(* that are set; a handler gives Ok(the object after it) or what it throws.*)
(***************************************************************************)

\* array[n] = value
SetAt(array, n, value) ==
    [k \in (DOMAIN array) \cup {n} |-> IF k = n THEN value ELSE array[k]]

\* buffer.readUInt16BE(offset) throws a RangeError outside the buffer
InRange16(buffer, offset) == offset >= 0 /\ offset + 2 <= Len(buffer)

readUInt16BE(buffer, offset) == buffer[offset + 1] * 256 + buffer[offset + 2]

\* new arithmetic.Statistics(nContexts)
Statistics(nContexts) ==
    [moreProbableSymbol |-> [k \in 1..nContexts |-> FALSE],
     states             |-> [k \in 1..nContexts |-> 0]]

\* new JPEG(): the fields the constructor sets
NewJpeg ==
    [dcTables |-> <<>>, acTables |-> <<>>, dcDecoders |-> <<>>, acDecoders |-> <<>>,
     dcStats |-> <<>>, acStats |-> <<>>, quantTables |-> <<>>, coefficients |-> <<>>,
     frameData |-> UndefinedObject, maxHorizSampling |-> Undefined,
     maxVertSampling |-> Undefined, mcuPixelWidth |-> Undefined,
     mcuPixelHeight |-> Undefined, totalMcus |-> Undefined, mcusPerRow |-> Undefined,
     restartInterval |-> 0]

\* the components of a frame header: components[componentId-1] = {...}
RECURSIVE readFrameComponents(_, _, _, _)
readFrameComponents(buffer, index, nComponents, components) ==
    IF nComponents > 0
    THEN LET componentId == At(buffer, index)
             sampling    == ToInt32(At(buffer, index + 1))
             component   == [id            |-> componentId,
                             quantTable    |-> At(buffer, index + 2),
                             horizSampling |-> sampling \div 16,
                             vertSampling  |-> sampling % 16]
         IN  readFrameComponents(buffer, index + 3, nComponents - 1,
                                 IF componentId = Undefined THEN components
                                 ELSE SetAt(components, componentId - 1, component))
    ELSE components

\* new Array(nComponents) has been filled without a hole, nothing set outside
DenseComponents(nComponents, components) ==
    nComponents # Undefined /\ DOMAIN components = 0..(nComponents - 1)

readFrameHeader(buffer, index) ==
    LET marker == At(buffer, index + 1)
    IN  IF InRange16(buffer, index + 2) /\ InRange16(buffer, index + 5)
           /\ InRange16(buffer, index + 7)
        THEN Ok([extended     |-> marker \in {193, 201},
                 progressive  |-> marker \in {194, 198, 202, 206},
                 coding       |-> IF marker >= 201 THEN "arithmetic" ELSE "huffman",
                 differential |-> marker \in {197, 198, 199, 205, 206, 207},
                 lossless     |-> marker \in {195, 199, 203},
                 precision    |-> At(buffer, index + 4),
                 width        |-> readUInt16BE(buffer, index + 7),
                 height       |-> readUInt16BE(buffer, index + 5),
                 components   |->
                     readFrameComponents(buffer, index + 10,
                                         At(buffer, index + 9), <<>>)])
        ELSE Throw("RangeError")

\* this.coefficients: for each component, blocksPerCol rows of blocksPerRow
\* blocks of 64 zeros
initCoefficientsArray(this) ==
    [this EXCEPT !.coefficients =
        [c \in 1..Len(this.frameData.components) |->
            [row \in 1..this.frameData.components[c].blocksPerCol |->
                [col \in 1..this.frameData.components[c].blocksPerRow |->
                    [k \in 1..64 |-> 0]]]]]

\* case 0xC0 ...: jpg.handleFrameHeader(buffer, i); jpg.initCoefficientsArray()
\* (for frames whose components have sampling factors of at least 1; a
\* component array with a hole makes handleFrameHeader throw a TypeError;
\* without holes the array is the sequence of its components)
frameHeaderSegment(this, buffer, index) ==
    LET header == readFrameHeader(buffer, index)
    IN  IF ~header.ok THEN header
        ELSE IF ~DenseComponents(At(buffer, index + 9), header.val.components)
        THEN Throw("TypeError")
        ELSE Ok(initCoefficientsArray(
                 handleFrameHeader(
                     [header.val EXCEPT !.components =
                         [k \in 1..At(buffer, index + 9) |-> header.val.components[k - 1]]])
                 @@ this))

\* while (index < end): the tables of a DHT segment
RECURSIVE huffmanTables(_, _, _, _)
huffmanTables(this, buffer, index, end) ==
    IF index < end
    THEN LET table == readHuffmanTable(buffer, index)
         IN  huffmanTables(
                 IF table.type # 0
                 THEN [this EXCEPT
                          !.acTables = SetAt(@, table.number, table),
                          !.acDecoders = SetAt(@, table.number, prepareDecoder(table.codes))]
                 ELSE [this EXCEPT
                          !.dcTables = SetAt(@, table.number, table),
                          !.dcDecoders = SetAt(@, table.number, prepareDecoder(table.codes))],
                 buffer, table.end, end)
    ELSE Ok(this)

handleHuffmanSegment(this, buffer, index) ==
    IF ~InRange16(buffer, index) \/ ~InRange16(buffer, index + 2)
    THEN Throw("RangeError")
    ELSE IF readUInt16BE(buffer, index) # 65476
    THEN Throw("Invalid Huffman segment (wrong marker)")
    ELSE huffmanTables(this, buffer, index + 4, index + readUInt16BE(buffer, index + 2))

readConditioningTable(buffer, index) ==
    LET tableClass  == ToInt32(At(buffer, index)) \div 16
        tableNumber == ToInt32(At(buffer, index)) % 16
        value       == At(buffer, index + 1)
        low         == ToInt32(value) % 16
        high        == ToInt32(value) \div 16
    IN  IF tableClass = 0
        THEN Ok([type |-> 0, number |-> tableNumber,
                 lowThreshold  |-> IF low = 0 THEN 0 ELSE Pow2(low - 1),
                 highThreshold |-> Pow2(high)])
        ELSE IF value # Undefined /\ value > 63
        THEN Throw("Invalid threshold value for arithmetic-coded AC coefficient conditioning")
        ELSE Ok([type |-> tableClass, number |-> tableNumber, threshold |-> value])

\* while (index < end): the tables of a DAC segment
RECURSIVE conditioningTables(_, _, _, _)
conditioningTables(this, buffer, index, end) ==
    IF index < end
    THEN LET table == readConditioningTable(buffer, index)
         IN  IF ~table.ok THEN table
             ELSE conditioningTables(
                 IF table.val.type # 0
                 THEN [this EXCEPT
                          !.acTables = SetAt(@, table.val.number, table.val),
                          !.acStats = SetAt(@, table.val.number, Statistics(245))]
                 ELSE [this EXCEPT
                          !.dcTables = SetAt(@, table.val.number, table.val),
                          !.dcStats = SetAt(@, table.val.number, Statistics(49))],
                 buffer, index + 2, end)
    ELSE Ok(this)

handleConditioningSegment(this, buffer, index) ==
    IF ~InRange16(buffer, index) \/ ~InRange16(buffer, index + 2)
    THEN Throw("RangeError")
    ELSE IF readUInt16BE(buffer, index) # 65484
    THEN Throw("Invalid arithmetic conditioning segment (wrong marker)")
    ELSE conditioningTables(this, buffer, index + 4,
                            index + readUInt16BE(buffer, index + 2) + 2)

readQuantizationTable(buffer, index) ==
    LET tableNumber == ToInt32(At(buffer, index)) % 16
    IN  IF ToInt32(At(buffer, index)) \div 16 = 0
        THEN Ok([precision |-> 8, number |-> tableNumber,
                 values |-> SubSeq(buffer, index + 2, Min(index + 65, Len(buffer))),
                 start |-> index, end |-> index + 65])
        ELSE IF InRange16(buffer, index + 127)
        THEN Ok([precision |-> 16, number |-> tableNumber,
                 values |-> [k \in 1..64 |-> readUInt16BE(buffer, index + 2 * k - 1)],
                 start |-> index, end |-> index + 129])
        ELSE Throw("RangeError")

\* while (index < end): the tables of a DQT segment; return index
RECURSIVE quantizationTables(_, _, _, _)
quantizationTables(this, buffer, index, end) ==
    IF index < end
    THEN LET table == readQuantizationTable(buffer, index)
         IN  IF ~table.ok THEN table
             ELSE quantizationTables(
                      [this EXCEPT !.quantTables = SetAt(@, table.val.number, table.val)],
                      buffer, table.val.end, end)
    ELSE Ok([this |-> this, index |-> index])

handleQuantizationSegment(this, buffer, index) ==
    IF ~InRange16(buffer, index) \/ ~InRange16(buffer, index + 2)
    THEN Throw("RangeError")
    ELSE IF readUInt16BE(buffer, index) # 65499
    THEN Throw("Invalid quantization tables segment (wrong marker)")
    ELSE quantizationTables(this, buffer, index + 4,
                            index + readUInt16BE(buffer, index + 2) + 2)

handleRestartInterval(this, buffer, index) ==
    IF InRange16(buffer, index + 4)
    THEN Ok([this EXCEPT !.restartInterval = readUInt16BE(buffer, index + 4)])
    ELSE Throw("RangeError")

\* i = buffer.indexOf(0xFF, i+1) and marker = buffer[i+1] of the next turn
NextMarkerAt == IndexOf(input.buffer, 255, local.i + 1)

Marker == At(input.buffer, NextMarkerAt + 1)

StartOfFrameMarkers == {192, 193, 194, 195, 197, 198, 199, 200, 201, 202, 203, 205, 206, 207}

\* the end of a case of the switch: the handler has returned or thrown;
\* local.dispatched keeps the history of the markers the switch has served
Handled(outcome, i) ==
    IF outcome.ok
    THEN /\ jpg' = outcome.val
         /\ local' = [i |-> i,
                      dispatched |-> Append(local.dispatched, <<NextMarkerAt, Marker>>)]
         /\ UNCHANGED <<pc, result>>
    ELSE /\ pc' = "thrown"
         /\ result' = outcome
         /\ local' = [i |-> i,
                      dispatched |-> Append(local.dispatched, <<NextMarkerAt, Marker>>)]
         /\ UNCHANGED jpg

\* if (i == -1) break
EndOfMarkers ==
    /\ pc = "markers"
    /\ NextMarkerAt = -1
    /\ pc' = "scanned"
    /\ UNCHANGED <<input, result, jpg, local>>

\* if (marker === 0xFF || marker === 0) { i++; continue; }
SkipStuffedByte ==
    /\ pc = "markers"
    /\ NextMarkerAt # -1
    /\ Marker \in {255, 0}
    /\ local' = [local EXCEPT !.i = NextMarkerAt + 1]
    /\ UNCHANGED <<pc, input, result, jpg>>

FrameHeaderMarker ==
    /\ pc = "markers"
    /\ NextMarkerAt # -1
    /\ Marker \in StartOfFrameMarkers
    /\ Handled(frameHeaderSegment(jpg, input.buffer, NextMarkerAt), NextMarkerAt)
    /\ UNCHANGED input

HuffmanMarker ==
    /\ pc = "markers"
    /\ NextMarkerAt # -1
    /\ Marker = 196
    /\ Handled(handleHuffmanSegment(jpg, input.buffer, NextMarkerAt), NextMarkerAt)
    /\ UNCHANGED input

ConditioningMarker ==
    /\ pc = "markers"
    /\ NextMarkerAt # -1
    /\ Marker = 204
    /\ Handled(handleConditioningSegment(jpg, input.buffer, NextMarkerAt), NextMarkerAt)
    /\ UNCHANGED input

\* case 0xD8: jpg.restartInterval = 0
StartOfImageMarker ==
    /\ pc = "markers"
    /\ NextMarkerAt # -1
    /\ Marker = 216
    /\ Handled(Ok([jpg EXCEPT !.restartInterval = 0]), NextMarkerAt)
    /\ UNCHANGED input

\* case 0xDA: jpg.frameData.progressive of an undefined frameData is a
\* TypeError; with a frame the scan is read from here
StartOfScanMarker ==
    /\ pc = "markers"
    /\ NextMarkerAt # -1
    /\ Marker = 218
    /\ IF jpg.frameData = UndefinedObject
       THEN Handled(Throw("TypeError"), NextMarkerAt)
       ELSE /\ pc' = "scan"
            /\ local' = [i |-> NextMarkerAt,
                         dispatched |-> Append(local.dispatched, <<NextMarkerAt, Marker>>)]
            /\ UNCHANGED <<result, jpg>>
    /\ UNCHANGED input

\* case 0xDB: i = jpg.handleQuantizationSegment(buffer, i) - 1
QuantizationMarker ==
    /\ pc = "markers"
    /\ NextMarkerAt # -1
    /\ Marker = 219
    /\ LET outcome == handleQuantizationSegment(jpg, input.buffer, NextMarkerAt)
       IN  IF outcome.ok
           THEN Handled(Ok(outcome.val.this), outcome.val.index - 1)
           ELSE Handled(outcome, NextMarkerAt)
    /\ UNCHANGED input

RestartIntervalMarker ==
    /\ pc = "markers"
    /\ NextMarkerAt # -1
    /\ Marker = 221
    /\ Handled(handleRestartInterval(jpg, input.buffer, NextMarkerAt), NextMarkerAt)
    /\ UNCHANGED input

\* a marker without a case: the switch does nothing
OtherMarker ==
    /\ pc = "markers"
    /\ NextMarkerAt # -1
    /\ Marker \notin {255, 0, 196, 204, 216, 218, 219, 221} \cup StartOfFrameMarkers
    /\ local' = [local EXCEPT !.i = NextMarkerAt]
    /\ UNCHANGED <<pc, input, result, jpg>>

\* the most segments between SOI and EOI in the files of the check
MaxSegments == 2

\* a marker segment: marker, 2-byte big-endian length (itself included), payload
Segment(marker, payload) ==
    <<255, marker, (Len(payload) + 2) \div 256, (Len(payload) + 2) % 256>> \o payload

\* payloads of APPn and COM segments: text, the bytes of a DRI segment,
\* stuffed and fill bytes, the bytes of an SOS marker, the bytes of SOI
Payloads ==
    {<<65, 66>>, <<255, 221, 0, 4, 0, 5>>, <<255, 0, 255, 255, 1>>,
     <<255, 218, 0, 2>>, <<255, 216>>}

\* a quantization table whose first values are the bytes of a DRI segment
QuantValues == [k \in 1..64 |-> IF k <= 6 THEN <<255, 221, 0, 4, 0, 9>>[k] ELSE k]

SegmentLibrary ==
    {Segment(224, payload) : payload \in Payloads}
    \cup {Segment(254, <<65, 66>>), Segment(254, <<255, 221, 0, 4, 0, 5>>)}
    \cup {Segment(221, <<0, 2>>),
          Segment(219, <<0>> \o QuantValues),
          Segment(192, <<8, 0, 8, 0, 8, 1, 1, 17, 0>>),
          Segment(196, TableBytes(0, [len \in 1..16 |-> IF len = 2 THEN 2 ELSE 0], 1)),
          Segment(204, <<0, 16>>)}

RECURSIVE Concat(_)
Concat(segments) ==
    IF segments = <<>> THEN <<>> ELSE Head(segments) \o Concat(Tail(segments))

\* files whose DRI segment is preceded by one or two 0xFF fill bytes
FilledFiles ==
    {(<<255, 216>> \o fill) \o (Segment(221, <<0, 2>>) \o <<255, 217>>) :
        fill \in {<<255>>, <<255, 255>>}}

\* SOF markers of the lossless and of the differential processes
UnsupportedFrameMarkers == {195, 199, 203, 207} \cup {197, 198, 199, 205, 206, 207}

\* files whose frame header is of a lossless or a differential process
UnsupportedFiles ==
    {(<<255, 216>> \o Segment(marker, <<8, 0, 8, 0, 8, 1, 1, 17, 0>>)) \o <<255, 217>> :
        marker \in UnsupportedFrameMarkers}

\* what follows the EOI marker in some files: text, a DRI segment, a frame
\* header
Trailers ==
    {<<65, 66>>, Segment(221, <<0, 5>>), Segment(192, <<8, 0, 16, 0, 16, 1, 1, 17, 0>>)}

\* files with bytes after the EOI marker
TrailedFiles ==
    {((<<255, 216>> \o Concat(segments)) \o <<255, 217>>) \o trailer :
        segments \in {<<>>, <<Segment(221, <<0, 2>>)>>,
                      <<Segment(192, <<8, 0, 8, 0, 8, 1, 1, 17, 0>>)>>},
        trailer \in Trailers}

JpegFiles ==
    {<<255, 216>> \o Concat(segments) \o <<255, 217>> :
        segments \in SeqsUpTo(SegmentLibrary, MaxSegments)}
    \cup FilledFiles \cup UnsupportedFiles \cup TrailedFiles

\* const jpg = new JPEG(); var i = 0
InitMarker ==
    /\ pc = "markers"
    /\ input \in {[buffer |-> buffer] : buffer \in JpegFiles}
    /\ result = None
    /\ jpg = NewJpeg
    /\ local = [i |-> 0, dispatched |-> <<>>]

NextMarker ==
    \/ EndOfMarkers
    \/ SkipStuffedByte
    \/ FrameHeaderMarker
    \/ HuffmanMarker
    \/ ConditioningMarker
    \/ StartOfImageMarker
    \/ StartOfScanMarker
    \/ QuantizationMarker
    \/ RestartIntervalMarker
    \/ OtherMarker

SpecMarker == InitMarker /\ [][NextMarker]_vars

\* markers that stand alone, without a length and a payload
StandaloneMarkers == {1, 216, 217} \cup (208..215)

\* where the marker segments of a well-formed file start: each one after the
\* end of the one before, found by its length
RECURSIVE SegmentStarts(_, _)
SegmentStarts(buffer, p) ==
    IF p + 1 >= Len(buffer) \/ buffer[p + 1] # 255 THEN {}
    ELSE {p} \cup
         IF buffer[p + 2] \in StandaloneMarkers
         THEN SegmentStarts(buffer, p + 2)
         ELSE IF InRange16(buffer, p + 2)
         THEN SegmentStarts(buffer, p + 2 + readUInt16BE(buffer, p + 2))
         ELSE {}

\* the restart interval the DRI segments of the file define: the last one's
RECURSIVE DefinedRestartInterval(_, _, _)
DefinedRestartInterval(buffer, p, interval) ==
    IF p + 1 >= Len(buffer) \/ buffer[p + 1] # 255 THEN interval
    ELSE IF buffer[p + 2] \in StandaloneMarkers
    THEN DefinedRestartInterval(buffer, p + 2, interval)
    ELSE IF ~InRange16(buffer, p + 2) THEN interval
    ELSE DefinedRestartInterval(buffer, p + 2 + readUInt16BE(buffer, p + 2),
             IF buffer[p + 2] = 221 THEN readUInt16BE(buffer, p + 4) ELSE interval)

\* C7: marker-segment payloads are skipped by their length: every marker the
\* switch serves stands at the start of a segment, never inside a payload,
\* and the restart interval is the one the DRI segments define.
C7_PayloadsSkipped ==
    pc \in {"markers", "scanned", "thrown", "scan"} /\ "dispatched" \in DOMAIN local =>
        /\ \A k \in 1..Len(local.dispatched) :
               local.dispatched[k][1] \in SegmentStarts(input.buffer, 0)
        /\ pc = "scanned" =>
               jpg.restartInterval = DefinedRestartInterval(input.buffer, 0, 0)

\* the markers the switch of fromBytes has a case for
CaseMarkers == {196, 204, 216, 218, 219, 221} \cup StartOfFrameMarkers

\* where the markers of a well-formed file stand at segment level: each one
\* after the end of the segment before and after any 0xFF fill bytes
RECURSIVE MarkerStarts(_, _)
MarkerStarts(buffer, p) ==
    IF p + 1 >= Len(buffer) \/ buffer[p + 1] # 255 THEN {}
    ELSE IF buffer[p + 2] = 255 THEN MarkerStarts(buffer, p + 1)
    ELSE {p} \cup
         IF buffer[p + 2] \in StandaloneMarkers
         THEN MarkerStarts(buffer, p + 2)
         ELSE IF InRange16(buffer, p + 2)
         THEN MarkerStarts(buffer, p + 2 + readUInt16BE(buffer, p + 2))
         ELSE {}

\* how often the switch has served the marker at offset p
TimesDispatched(p) ==
    Cardinality({k \in 1..Len(local.dispatched) :
                    local.dispatched[k] = <<p, At(input.buffer, p + 1)>>})

\* C11 as stated: when the marker scan has reached the end of the input, the
\* switch has served every marker that stands at segment level exactly once
\* (of the markers the switch has a case for), the marker at offset 0 and a
\* marker after 0xFF fill bytes included.
C11_EveryMarkerDispatched ==
    pc = "scanned" =>
        \A p \in MarkerStarts(input.buffer, 0) :
            At(input.buffer, p + 1) \in CaseMarkers => TimesDispatched(p) = 1

\* C11 without the marker at offset 0: the markers after it are served once
C11_AfterOffsetZero ==
    pc = "scanned" =>
        \A p \in MarkerStarts(input.buffer, 0) \ {0} :
            At(input.buffer, p + 1) \in CaseMarkers => TimesDispatched(p) = 1

\* C16 as stated: a frame header whose SOF marker denotes a lossless or a
\* differential process makes fromBytes fail: once the switch has served
\* such a marker at segment level, an error has been thrown.
C16_UnsupportedRejected ==
    "dispatched" \in DOMAIN local =>
        \A k \in 1..Len(local.dispatched) :
            (/\ local.dispatched[k][1] \in MarkerStarts(input.buffer, 0)
             /\ local.dispatched[k][2] \in UnsupportedFrameMarkers)
            => pc = "thrown"

(***************************************************************************)
(* Statistics, stateTable, Coder, Decoder (arithmetic.js, the second       *)
(* program of src/unnamed/part_007).  Context c of a statistics area is    *)
(* element c + 1 of its arrays.                                            *)
(***************************************************************************)

\* the probability estimation state machine (T.81 table D.3); row n is
\* stateTable[n + 1], a row is <<probability, nextLPS, nextMPS, swapMPS>>
stateTable ==
    << <<23069, 1, 1, 1>>, <<9606, 14, 2, 0>>, <<4372, 16, 3, 0>>,
       <<2059, 18, 4, 0>>, <<984, 20, 5, 0>>, <<474, 23, 6, 0>>,
       <<229, 25, 7, 0>>, <<111, 28, 8, 0>>, <<54, 30, 9, 0>>,
       <<26, 33, 10, 0>>, <<13, 35, 11, 0>>, <<6, 9, 12, 0>>,
       <<3, 10, 13, 0>>, <<1, 12, 13, 0>>, <<23167, 15, 15, 1>>,
       <<16165, 36, 16, 0>>, <<11506, 38, 17, 0>>, <<8316, 39, 18, 0>>,
       <<6073, 40, 19, 0>>, <<4482, 42, 20, 0>>, <<3311, 43, 21, 0>>,
       <<2465, 45, 22, 0>>, <<1839, 46, 23, 0>>, <<1372, 48, 24, 0>>,
       <<1030, 49, 25, 0>>, <<771, 51, 26, 0>>, <<576, 52, 27, 0>>,
       <<433, 54, 28, 0>>, <<324, 56, 29, 0>>, <<245, 57, 30, 0>>,
       <<183, 59, 31, 0>>, <<138, 60, 32, 0>>, <<104, 62, 33, 0>>,
       <<78, 63, 34, 0>>, <<59, 32, 35, 0>>, <<44, 33, 9, 0>>,
       <<23265, 37, 37, 1>>, <<18508, 64, 38, 0>>, <<14861, 65, 39, 0>>,
       <<12017, 67, 40, 0>>, <<9759, 68, 41, 0>>, <<7987, 69, 42, 0>>,
       <<6568, 70, 43, 0>>, <<5400, 72, 44, 0>>, <<4471, 73, 45, 0>>,
       <<3700, 74, 46, 0>>, <<3067, 75, 47, 0>>, <<2552, 77, 48, 0>>,
       <<2145, 78, 49, 0>>, <<1798, 79, 50, 0>>, <<1485, 48, 51, 0>>,
       <<1246, 50, 52, 0>>, <<1039, 50, 53, 0>>, <<867, 51, 54, 0>>,
       <<724, 52, 55, 0>>, <<604, 53, 56, 0>>, <<504, 54, 57, 0>>,
       <<420, 55, 58, 0>>, <<352, 56, 59, 0>>, <<293, 57, 60, 0>>,
       <<246, 58, 61, 0>>, <<203, 59, 62, 0>>, <<171, 61, 63, 0>>,
       <<143, 61, 32, 0>>, <<23314, 65, 65, 1>>, <<19716, 80, 66, 0>>,
       <<16684, 81, 67, 0>>, <<14296, 82, 68, 0>>, <<12264, 83, 69, 0>>,
       <<10556, 84, 70, 0>>, <<9081, 86, 71, 0>>, <<7903, 87, 72, 0>>,
       <<6825, 87, 73, 0>>, <<5966, 72, 74, 0>>, <<5156, 72, 75, 0>>,
       <<4508, 74, 76, 0>>, <<3947, 74, 77, 0>>, <<3409, 75, 78, 0>>,
       <<2998, 77, 79, 0>>, <<2624, 77, 48, 0>>, <<22578, 80, 81, 1>>,
       <<19740, 88, 82, 0>>, <<17294, 89, 83, 0>>, <<15325, 90, 84, 0>>,
       <<13550, 91, 85, 0>>, <<11950, 92, 86, 0>>, <<10650, 93, 87, 0>>,
       <<9494, 86, 71, 0>>, <<21872, 88, 89, 1>>, <<19625, 95, 90, 0>>,
       <<17625, 96, 91, 0>>, <<15906, 97, 92, 0>>, <<14372, 99, 93, 0>>,
       <<12980, 99, 94, 0>>, <<11799, 93, 86, 0>>, <<22184, 95, 96, 1>>,
       <<20294, 101, 97, 0>>, <<18405, 102, 98, 0>>, <<16847, 103, 99, 0>>,
       <<15421, 104, 100, 0>>, <<14174, 99, 93, 0>>, <<21041, 105, 102, 0>>,
       <<19471, 106, 103, 0>>, <<17977, 107, 104, 0>>, <<16734, 103, 99, 0>>,
       <<22055, 105, 106, 1>>, <<20711, 108, 107, 0>>,
       <<19333, 109, 103, 0>>, <<21911, 110, 109, 0>>,
       <<20559, 111, 107, 0>>, <<23056, 110, 111, 1>>,
       <<21794, 112, 109, 0>>, <<23019, 112, 111, 1>> >>

\* x >>> n of a 32-bit value
UShr32(x, n) ==
    IF x >= 0 THEN x \div Pow2(n)
    ELSE (((x + 2147483647) + 1) \div Pow2(n)) + Pow2(31 - n)

\* new Coder()
NewCoder == [intervalBase |-> 0, intervalSize |-> 65536, neededBits |-> 11, output |-> <<>>]

\* while (output[precedingIndex] === 0 && output[precedingIndex-1] === 0xFF):
\* the carry runs over the stuffed pairs; the place it lands on
RECURSIVE carryOver(_, _)
carryOver(output, precedingIndex) ==
    IF At(output, precedingIndex) = 0 /\ At(output, precedingIndex - 1) = 255
    THEN carryOver(SubSeq(output, 1, precedingIndex - 1)
                       \o SubSeq(output, precedingIndex + 1, Len(output)),
                   precedingIndex - 2)
    ELSE [output |-> output, precedingIndex |-> precedingIndex]

\* if (precedingIndex >= 0) this.output[precedingIndex]++
carried(output) ==
    LET over == carryOver(output, Len(output) - 1)
    IN  IF over.precedingIndex >= 0
        THEN [over.output EXCEPT ![over.precedingIndex + 1] = @ + 1]
        ELSE over.output

\* push 0xFF and a stuffed zero, or the byte
pushOutputByte(output, outputByte) ==
    IF outputByte = 255 THEN output \o <<255, 0>> ELSE Append(output, outputByte)

Coder_emitOutputByte(this) ==
    LET outputByte == UShr32(this.intervalBase, 19)
    IN  [this EXCEPT
            !.output = IF outputByte > 255
                       THEN pushOutputByte(carried(this.output), outputByte % 256)
                       ELSE pushOutputByte(this.output, outputByte),
            !.intervalBase = LowBits(this.intervalBase, 19)]

RECURSIVE Coder_renormalize(_)
Coder_renormalize(this) ==
    IF this.intervalSize < 32768
    THEN LET shifted == [this EXCEPT !.intervalSize = ShiftLeft32(@, 1),
                                     !.intervalBase = ShiftLeft32(@, 1),
                                     !.neededBits = @ - 1]
         IN  Coder_renormalize(
                 IF shifted.neededBits = 0
                 THEN [Coder_emitOutputByte(shifted) EXCEPT !.neededBits = 8]
                 ELSE shifted)
    ELSE this

\* gives the coder and whether the state moves on
encodeMPS(this, probability) ==
    LET size == this.intervalSize - probability
    IN  IF size < 32768
        THEN [coder |-> Coder_renormalize(
                            IF size < probability
                            THEN [this EXCEPT !.intervalBase = @ + size,
                                              !.intervalSize = probability]
                            ELSE [this EXCEPT !.intervalSize = size]),
              transition |-> TRUE]
        ELSE [coder |-> [this EXCEPT !.intervalSize = size], transition |-> FALSE]

encodeLPS(this, probability) ==
    Coder_renormalize(
        IF this.intervalSize - probability < probability
        THEN [this EXCEPT !.intervalSize = @ - probability]
        ELSE [this EXCEPT !.intervalBase = @ + this.intervalSize - probability,
                          !.intervalSize = probability])

\* gives the coder, the next state (0: none) and whether the MPS is swapped
encodeDecision(this, bit, mps, probability, nextStateMPS, nextStateLPS, swapMPS) ==
    IF bit = mps
    THEN LET coded == encodeMPS(this, probability)
         IN  [coder |-> coded.coder,
              nextState |-> IF coded.transition THEN nextStateMPS ELSE 0,
              swapMPS |-> FALSE]
    ELSE [coder |-> encodeLPS(this, probability),
          nextState |-> nextStateLPS,
          swapMPS |-> swapMPS # 0]

\* if (nextState) stats.states[context] = nextState;
\* if (swapMPS) stats.moreProbableSymbol[context] = !mps
\* the same without the exchange of the more probable symbol
updateStatistics_NoSwap(stats, context, nextState, swapMPS) ==
    [moreProbableSymbol |-> stats.moreProbableSymbol,
     states |->
        [stats.states EXCEPT ![context + 1] = IF nextState # 0 THEN nextState ELSE @]]

updateStatistics(stats, context, nextState, swapMPS) ==
    [moreProbableSymbol |->
        [stats.moreProbableSymbol EXCEPT ![context + 1] = IF swapMPS THEN ~@ ELSE @],
     states |->
        [stats.states EXCEPT ![context + 1] = IF nextState # 0 THEN nextState ELSE @]]

\* what encodeBit leaves after encodeDecision: the coder and the statistics
bitEncoded(stats, context, coded) ==
    [coder |-> coded.coder,
     stats |-> updateStatistics(stats, context, coded.nextState, coded.swapMPS)]

\* const state = stateTable[stats.states[context]]
bitOfState(this, bit, stats, context, state) ==
    bitEncoded(stats, context,
               encodeDecision(this, bit, stats.moreProbableSymbol[context + 1],
                              state[1], state[3], state[2], state[4]))

encodeBit(this, bit, stats, context) ==
    bitOfState(this, bit, stats, context, stateTable[stats.states[context + 1] + 1])

\* while (output[output.length-1] === 0) output.pop()
RECURSIVE popZeros(_)
popZeros(output) ==
    IF output # <<>> /\ output[Len(output)] = 0
    THEN popZeros(SubSeq(output, 1, Len(output) - 1))
    ELSE output

Coder_flush(this) ==
    LET intervalTop == this.intervalBase + this.intervalSize - 1
        masked      == intervalTop - (intervalTop % 65536)
        chosenPoint == IF masked < this.intervalBase THEN masked + 32768 ELSE masked
        first       == Coder_emitOutputByte(
                           [this EXCEPT !.intervalBase =
                               ShiftLeft32(chosenPoint, this.neededBits)])
        second      == Coder_emitOutputByte(
                           [first EXCEPT !.intervalBase = ShiftLeft32(@, 8)])
        popped      == popZeros(second.output)
    IN  [second EXCEPT !.output =
            IF popped # <<>> /\ popped[Len(popped)] = 255
            THEN Append(popped, 0) ELSE popped]

(***************************************************************************)
(* Decoder.  Its intervalBase is a 32-bit value that is added to,          *)
(* subtracted from, shifted left and read with >>> 16 only: it is kept     *)
(* modulo 2^32 as its two 16-bit halves <<high, low>>.                      *)
(***************************************************************************)

\* base + (byte << 8)
BaseAddByte(base, byte) ==
    LET sum == base[2] + byte * 256
    IN  <<(base[1] + sum \div 65536) % 65536, sum % 65536>>

\* base << n, for n in 1..15
BaseShiftLeft(base, n) ==
    <<(base[1] * Pow2(n) + base[2] \div Pow2(16 - n)) % 65536,
      (base[2] * Pow2(n)) % 65536>>

\* base - (size << 16)
BaseSubtractHigh(base, size) == <<(base[1] - size) % 65536, base[2]>>

\* base >>> 16
BaseHigh(base) == base[1]

consumeInputByte(this) ==
    IF Len(this.input) = 0
    THEN this
    ELSE [this EXCEPT !.intervalBase = BaseAddByte(@, Head(this.input)),
                      !.input = Tail(@)]

\* new Decoder(input)
NewDecoder(bytes) ==
    LET fresh  == [intervalBase |-> <<0, 0>>, intervalSize |-> 65536,
                   neededBits |-> 0, input |-> bytes]
        first  == consumeInputByte(fresh)
        second == consumeInputByte([first EXCEPT !.intervalBase = BaseShiftLeft(@, 8)])
    IN  [second EXCEPT !.intervalBase = BaseShiftLeft(@, 8)]

\* one turn of the loop of renormalize and no more
Decoder_renormalize_Once(this) ==
    LET fed == IF this.neededBits = 0
               THEN [consumeInputByte(this) EXCEPT !.neededBits = 8]
               ELSE this
    IN  [fed EXCEPT !.intervalSize = ShiftLeft32(@, 1),
                    !.intervalBase = BaseShiftLeft(@, 1),
                    !.neededBits = @ - 1]

RECURSIVE Decoder_renormalize(_)
Decoder_renormalize(this) ==
    LET fed     == IF this.neededBits = 0
                   THEN [consumeInputByte(this) EXCEPT !.neededBits = 8]
                   ELSE this
        shifted == [fed EXCEPT !.intervalSize = ShiftLeft32(@, 1),
                               !.intervalBase = BaseShiftLeft(@, 1),
                               !.neededBits = @ - 1]
    IN  IF shifted.intervalSize < 32768 THEN Decoder_renormalize(shifted) ELSE shifted

\* gives the decoder, the bit, the next state (0: none) and whether the MPS
\* is swapped
decodeDecision(this, probability, mps, nextStateMPS, nextStateLPS, swapMPS) ==
    LET size == this.intervalSize - probability
        sized == [this EXCEPT !.intervalSize = size]
        decided(decoder, bit) ==
            [decoder |-> Decoder_renormalize(decoder),
             result |-> bit,
             nextState |-> IF bit = mps THEN nextStateMPS ELSE nextStateLPS,
             swapMPS |-> (bit # mps) /\ swapMPS # 0]
    IN  IF BaseHigh(this.intervalBase) < size
        THEN IF size < 32768
             THEN decided(sized, (size < probability) # mps)
             ELSE [decoder |-> sized, result |-> mps, nextState |-> 0, swapMPS |-> FALSE]
        ELSE decided([sized EXCEPT !.intervalBase = BaseSubtractHigh(@, size),
                                   !.intervalSize = probability],
                     (size >= probability) # mps)

\* what decodeBit returns after decodeDecision: the decoder, the statistics
\* after the bit, and the bit
bitDecoded(stats, context, decoded) ==
    [ok |-> TRUE,
     decoder |-> decoded.decoder,
     stats |-> updateStatistics(stats, context, decoded.nextState, decoded.swapMPS),
     result |-> decoded.result]

\* const state = stateTable[stats.states[context]]
bitInState(this, stats, context, state) ==
    bitDecoded(stats, context,
               decodeDecision(this, state[1], stats.moreProbableSymbol[context + 1],
                              state[3], state[2], state[4]))

\* the state of a context outside the statistics area, or of no statistics
\* area at all, is undefined and reading state.probability throws a TypeError
decodeBit(this, stats, context) ==
    IF stats = UndefinedObject \/ context >= Len(stats.states)
    THEN Throw("TypeError")
    ELSE bitInState(this, stats, context, stateTable[stats.states[context + 1] + 1])

(***************************************************************************)
(* The round trip of src/test/arithmetic.js: binary decisions are encoded  *)
(* one by one with a Coder and fresh Statistics, the coder is flushed,     *)
(* byte stuffing is removed from its output, and a Decoder with fresh      *)
(* Statistics decodes as many decisions, each in the context it was        *)
(* encoded in.                                                             *)
(***************************************************************************)

\* new arithmetic.Coder(1): one context
nContexts == 1

\* the longest sequence of decisions that is encoded
MaxDecisions == 16

\* the decoder and statistics after the first k decisions, and their bits
RECURSIVE decodeBits(_, _, _)
decodeBits(bytes, contexts, k) ==
    IF k = 0
    THEN [decoder |-> NewDecoder(bytes), stats |-> Statistics(nContexts), bits |-> <<>>]
    ELSE LET before  == decodeBits(bytes, contexts, k - 1)
             decoded == decodeBit(before.decoder, before.stats, contexts[k])
         IN  [decoder |-> decoded.decoder,
              stats |-> decoded.stats,
              bits |-> Append(before.bits, decoded.result)]

InitArith ==
    /\ pc = "encode"
    /\ input = <<>>
    /\ result = Idle
    /\ jpg = Idle
    /\ local = [coder |-> NewCoder, stats |-> Statistics(nContexts)]

\* coder.encodeBit(bit, stats, context)
EncodeBit ==
    /\ pc = "encode"
    /\ Len(input) < MaxDecisions
    /\ \E bit \in BOOLEAN, context \in 0..(nContexts - 1) :
          /\ input' = Append(input, [bit |-> bit, context |-> context])
          /\ local' = encodeBit(local.coder, bit, local.stats, context)
    /\ UNCHANGED <<pc, result, jpg>>

\* coder.flush()
Flush ==
    /\ pc = "encode"
    /\ pc' = "flushed"
    /\ local' = [local EXCEPT !.coder = Coder_flush(@)]
    /\ UNCHANGED <<input, result, jpg>>

\* the stuffing is removed and a new Decoder decodes the decisions
Decode ==
    /\ pc = "flushed"
    /\ pc' = "decoded"
    /\ result' = decodeBits(removeByteStuffing(local.coder.output),
                            [k \in 1..Len(input) |-> input[k].context],
                            Len(input)).bits
    /\ UNCHANGED <<input, jpg, local>>

NextArith == EncodeBit \/ Flush \/ Decode

SpecArith == InitArith /\ [][NextArith]_vars

\* the decisions that were encoded
Decisions == [k \in 1..Len(input) |-> input[k].bit]

\* C4: every sequence of decisions, whatever its contexts, that is encoded,
\* flushed, freed of byte stuffing and decoded comes back as it was
C4_RoundTrip == pc = "decoded" => result = Decisions

(***************************************************************************)
(* The Decoder's helpers for arithmetic-coded coefficients (T.81 F.1.4,    *)
(* F.2.4).  Each gives [ok, decoder, stats, result] or what it throws.     *)
(***************************************************************************)

S0_zero == 0

S0_small == 4

S0_large == 8

S0_neg_small == 12

S0_neg_large == 16

X1 == 20

X2_low == 189

X2_high == X2_low + 28

\* a loop that is never left
NoReturn == [ok |-> FALSE, err |-> "no return"]

\* the steps after a step that has not thrown
Then(step, rest(_)) == IF step.ok THEN rest(step) ELSE step

\* while (this.decodeBit(stats, context)) { context++; magnitude <<= 1; }
RECURSIVE magnitudeBits(_, _, _, _)
magnitudeBits(this, stats, context, magnitude) ==
    Then(decodeBit(this, stats, context), LAMBDA bit :
    IF bit.result
    THEN magnitudeBits(bit.decoder, bit.stats, context + 1, ShiftLeft32(magnitude, 1))
    ELSE [bit EXCEPT !.result = [context |-> context, magnitude |-> magnitude]])

\* while (magnitude >>= 1) if (this.decodeBit(stats, context)) value += magnitude;
\* a magnitude that was shifted into the sign bit never becomes 0
RECURSIVE valueBits(_, _, _, _, _)
valueBits(this, stats, context, magnitude, value) ==
    IF magnitude < 0 THEN NoReturn
    ELSE IF magnitude \div 2 = 0
    THEN [ok |-> TRUE, decoder |-> this, stats |-> stats, result |-> value]
    ELSE Then(decodeBit(this, stats, context), LAMBDA bit :
         valueBits(bit.decoder, bit.stats, context, magnitude \div 2,
                   IF bit.result THEN value + magnitude \div 2 ELSE value))

\* signContext is null (Undefined) for AC coefficients: a fixed estimate
decodeSign(this, stats, signContext) ==
    IF signContext # Undefined /\ signContext # 0
    THEN decodeBit(this, stats, signContext)
    ELSE LET fixed == decodeDecision(this, 23069, FALSE, Undefined, Undefined, 0)
         IN  [ok |-> TRUE, decoder |-> fixed.decoder, stats |-> stats,
              result |-> fixed.result]

\* sign = signBit ? -1 : 1
SignOf(signBit) == IF signBit THEN -1 ELSE 1

decodeSignMagnitude(this, stats, signContext, posContext, negContext, magContext1, magContext2) ==
    Then(decodeSign(this, stats, signContext), LAMBDA signed :
    Then(decodeBit(signed.decoder, signed.stats,
                   IF SignOf(signed.result) = 1 THEN posContext ELSE negContext),
         LAMBDA one :
    IF ~one.result THEN [one EXCEPT !.result = SignOf(signed.result)]
    ELSE
    Then(decodeBit(one.decoder, one.stats, magContext1), LAMBDA two :
    IF ~two.result THEN [two EXCEPT !.result = 2 * SignOf(signed.result)]
    ELSE
    Then(magnitudeBits(two.decoder, two.stats, magContext2, 4), LAMBDA category :
    Then(valueBits(category.decoder, category.stats, category.result.context + 14,
                   category.result.magnitude \div 2, category.result.magnitude \div 2),
         LAMBDA value :
    [value EXCEPT !.result = (@ + 1) * SignOf(signed.result)])))))

\* the group of DC contexts, chosen by the previous DC difference
DcContext(prevDCDelta, lowThreshold, highThreshold) ==
    IF prevDCDelta > lowThreshold /\ prevDCDelta <= highThreshold THEN S0_small
    ELSE IF prevDCDelta > highThreshold THEN S0_large
    ELSE IF -prevDCDelta > lowThreshold /\ -prevDCDelta <= highThreshold THEN S0_neg_small
    ELSE IF -prevDCDelta > highThreshold THEN S0_neg_large
    ELSE S0_zero

\* if (!this.decodeBit(stats, S0)) return 0; return this.decodeSignMagnitude(...)
decodeDCFrom(this, stats, S0) ==
    Then(decodeBit(this, stats, S0), LAMBDA zero :
    IF ~zero.result THEN [zero EXCEPT !.result = 0]
    ELSE decodeSignMagnitude(zero.decoder, zero.stats, S0 + 1, S0 + 2, S0 + 3,
                             X1, X1 + 1))

decodeDCCoefficientDelta(this, stats, prevDCDelta, lowThreshold, highThreshold) ==
    decodeDCFrom(this, stats, DcContext(prevDCDelta, lowThreshold, highThreshold))

\* while (acCoefficients.length <= spectralEnd - spectralStart) push(0)
RECURSIVE zeroFilled(_, _)
zeroFilled(coefficients, length) ==
    IF Len(coefficients) < length
    THEN zeroFilled(Append(coefficients, 0), length)
    ELSE coefficients

\* while (!this.decodeBit(stats, S0)) { push(0); zigZagIndex++; S0 += 3; ... }
\* S0 is 3 * zigZagIndex + 1 all along
RECURSIVE zeroCoefficients(_, _, _, _)
zeroCoefficients(this, stats, zigZagIndex, acCoefficients) ==
    Then(decodeBit(this, stats, 3 * zigZagIndex + 1), LAMBDA bit :
    IF ~bit.result
    THEN zeroCoefficients(bit.decoder, bit.stats, zigZagIndex + 1,
                          Append(acCoefficients, 0))
    ELSE [bit EXCEPT !.result = [zigZagIndex |-> zigZagIndex,
                                 acCoefficients |-> acCoefficients]])

\* the coefficient after a run of zeros: SN_SP = X1 = 3 * zigZagIndex + 2
acCoefficient(this, stats, threshold, zigZagIndex) ==
    decodeSignMagnitude(this, stats, Undefined,
                        3 * zigZagIndex + 2, 3 * zigZagIndex + 2, 3 * zigZagIndex + 2,
                        IF zigZagIndex < threshold THEN X2_low ELSE X2_high)

\* do { ... } while (acCoefficients.length <= spectralEnd - spectralStart)
RECURSIVE decodeACLoop(_, _, _, _, _, _, _)
decodeACLoop(this, stats, threshold, spectralStart, spectralEnd, zigZagIndex, acCoefficients) ==
    Then(decodeBit(this, stats, 3 * zigZagIndex), LAMBDA endOfBlock :
    IF endOfBlock.result
    THEN [endOfBlock EXCEPT !.result =
             zeroFilled(acCoefficients, spectralEnd - spectralStart + 1)]
    ELSE
    Then(zeroCoefficients(endOfBlock.decoder, endOfBlock.stats, zigZagIndex,
                          acCoefficients),
         LAMBDA zeros :
    Then(acCoefficient(zeros.decoder, zeros.stats, threshold, zeros.result.zigZagIndex),
         LAMBDA coefficient :
    IF Len(zeros.result.acCoefficients) + 1 <= spectralEnd - spectralStart
    THEN decodeACLoop(coefficient.decoder, coefficient.stats, threshold,
                      spectralStart, spectralEnd, zeros.result.zigZagIndex + 1,
                      Append(zeros.result.acCoefficients, coefficient.result))
    ELSE [coefficient EXCEPT !.result =
             Append(zeros.result.acCoefficients, coefficient.result)])))

decodeACCoefficients(this, stats, threshold, spectralStart, spectralEnd) ==
    decodeACLoop(this, stats, threshold, spectralStart, spectralEnd,
                 spectralStart - 1, <<>>)

(***************************************************************************)
(* Sequential scans (src/jpeg.js): the scan header, the entropy-coded      *)
(* segments between restart markers, and the blocks of their MCUs.         *)
(***************************************************************************)

\* array[n], undefined where the array has no element n
ElementAt(array, n) == IF n \in DOMAIN array THEN array[n] ELSE UndefinedObject

\* while (nComponents-- > 0): gives <<components, index>>
RECURSIVE readScanComponents(_, _, _, _, _)
readScanComponents(this, buffer, index, nComponents, components) ==
    IF nComponents > 0
    THEN LET componentId   == At(buffer, index)
             selectors     == ToInt32(At(buffer, index + 1))
             componentData == ElementAt(this.frameData.components, componentId)
         IN  readScanComponents(this, buffer, index + 2, nComponents - 1,
                 Append(components,
                        [dcTable |-> selectors \div 16, acTable |-> selectors % 16]
                        @@ componentData))
    ELSE <<components, index>>

\* a value that an if takes as true
Truthy(v) == v # 0 /\ v # Undefined

readScanHeader(this, buffer, index) ==
    IF ~InRange16(buffer, index) \/ ~InRange16(buffer, index + 2)
    THEN Throw("RangeError")
    ELSE IF readUInt16BE(buffer, index) # 65498
    THEN Throw("Invalid scan header (wrong marker)")
    ELSE
    LET end        == index + readUInt16BE(buffer, index + 2)
        read       == readScanComponents(this, buffer, index + 5, At(buffer, index + 4), <<>>)
        components == read[1]
        last       == read[2]
        selectionStart == At(buffer, last)
        selectionEnd   == At(buffer, last + 1)
        approxBitPos   == At(buffer, last + 2)
    IN  IF ~(last < end) THEN Ok([components |-> components])
        ELSE IF this.frameData.progressive
        THEN Ok([spectralStart |-> selectionStart,
                 spectralEnd   |-> selectionEnd,
                 approxBitHigh |-> ToInt32(approxBitPos) \div 16,
                 approxBitLow  |-> ToInt32(approxBitPos) % 16,
                 components    |-> components])
        ELSE IF this.frameData.lossless
        THEN Ok([predictor |-> selectionEnd, pointTransform |-> approxBitPos,
                 components |-> components])
        ELSE IF Truthy(selectionStart) \/ selectionEnd # 63 \/ Truthy(approxBitPos)
        THEN Throw("Unexpected values in scan header")
        ELSE Ok([components |-> components])

\* while (ecsEnd !== -1 && buffer[ecsEnd+1] == 0): the 0xFF is a stuffed byte
RECURSIVE ecsEndFrom(_, _)
ecsEndFrom(buffer, ecsEnd) ==
    IF ecsEnd # -1 /\ At(buffer, ecsEnd + 1) = 0
    THEN ecsEndFrom(buffer, IndexOf(buffer, 255, ecsEnd + 2))
    ELSE ecsEnd

\* returns <<ecs, ecsEnd>>
extractEntropyCodedSegment(buffer, index) ==
    LET ecsEnd == ecsEndFrom(buffer, IndexOf(buffer, 255, index))
    IN  IF ecsEnd = -1
        THEN Throw("Unterminated scan section")
        ELSE Ok(<<removeByteStuffing(SubSeq(buffer, index + 1, ecsEnd)), ecsEnd>>)

\* Statistics.reset()
reset_Kept(stats) == stats

reset(stats) == Statistics(Len(stats.states))

\* an array whose elements 0..length-1 are all set
Dense(array) == \A n \in DOMAIN array : \A k \in 0..n : k \in DOMAIN array

\* for (var dcStats of this.dcStats) dcStats.reset(): a hole of the array is
\* undefined, and undefined.reset() throws a TypeError
resetArithmeticStatisticsAreas(this) ==
    IF ~Dense(this.dcStats) \/ ~Dense(this.acStats)
    THEN Throw("TypeError")
    ELSE Ok([this EXCEPT !.dcStats = [n \in DOMAIN @ |-> reset(@[n])],
                         !.acStats = [n \in DOMAIN @ |-> reset(@[n])]])

decodeMagnitudeAndBits(magnitude, bits) ==
    LET power == ShiftLeft32(1, (magnitude - 1) % 32)
    IN  IF bits >= power THEN bits ELSE ((bits - power) - power) + 1

\* n zeros pushed
Zeros(n) == [k \in 1..n |-> 0]

\* while (coefficients.length < nCoefficients): the AC coefficients of a block;
\* returns <<index, bitIndex, coefficients>>, with zeroBands after an
\* end-of-band run
RECURSIVE readAcCoefficients(_, _, _, _, _, _, _)
readAcCoefficients(buffer, index, bitIndex, end, acDecoder, nCoefficients, coefficients) ==
    IF Len(coefficients) < nCoefficients
    THEN Then(decodeOne(buffer, index, end, bitIndex, acDecoder), LAMBDA composite :
         IF composite.val[3] = 0
         THEN Ok(<<composite.val[1], composite.val[2],
                   zeroFilled(coefficients, nCoefficients)>>)
         ELSE IF composite.val[3] = 240
         THEN readAcCoefficients(buffer, composite.val[1], composite.val[2], end,
                                 acDecoder, nCoefficients, coefficients \o Zeros(16))
         ELSE IF composite.val[3] % 16 = 0
         THEN Then(readBits(buffer, composite.val[1], composite.val[2],
                            composite.val[3] \div 16),
                   LAMBDA bands :
              Ok(<<bands.val[1], bands.val[2],
                   zeroFilled(coefficients, nCoefficients),
                   bands.val[3] + Pow2(composite.val[3] \div 16) - 1>>))
         ELSE Then(readBits(buffer, composite.val[1], composite.val[2],
                            composite.val[3] % 16),
                   LAMBDA extraBits :
              readAcCoefficients(
                  buffer, extraBits.val[1], extraBits.val[2], end,
                  acDecoder, nCoefficients,
                  (coefficients \o Zeros(composite.val[3] \div 16))
                  \o <<decodeMagnitudeAndBits(composite.val[3] % 16,
                                              extraBits.val[3])>>)))
    ELSE Ok(<<index, bitIndex, coefficients>>)

readHuffmanSampleBlock(buffer, index, bitIndex, end, prevDcCoeff, dcDecoder, acDecoder, spectralStart, spectralEnd) ==
    IF spectralStart = 0
    THEN Then(decodeOne(buffer, index, end, bitIndex, dcDecoder), LAMBDA magnitude :
         Then(readBits(buffer, magnitude.val[1], magnitude.val[2], magnitude.val[3]),
              LAMBDA extraBits :
         readAcCoefficients(
             buffer, extraBits.val[1], extraBits.val[2], end, acDecoder,
             spectralEnd - spectralStart + 1,
             <<decodeMagnitudeAndBits(magnitude.val[3], extraBits.val[3])
               + prevDcCoeff>>)))
    ELSE readAcCoefficients(buffer, index, bitIndex, end, acDecoder,
                            spectralEnd - spectralStart + 1, <<>>)

\* if (spectralStart === 0) dcDelta = decoder.decodeDCCoefficientDelta(...)
dcOfBlock(decoder, prevDcDelta, dcTable, dcStats, spectralStart) ==
    IF spectralStart = 0
    THEN decodeDCCoefficientDelta(decoder, dcStats, prevDcDelta,
                                  dcTable.lowThreshold, dcTable.highThreshold)
    ELSE [ok |-> TRUE, decoder |-> decoder, stats |-> dcStats, result |-> Undefined]

\* if (spectralEnd !== 0) coefficients.push(...decoder.decodeACCoefficients(...))
acOfBlock(decoder, acTable, acStats, spectralStart, spectralEnd) ==
    IF spectralEnd # 0
    THEN decodeACCoefficients(decoder, acStats, acTable.threshold,
                              IF spectralStart = 0 THEN 1 ELSE spectralStart,
                              spectralEnd)
    ELSE [ok |-> TRUE, decoder |-> decoder, stats |-> acStats, result |-> <<>>]

\* gives [ok, decoder, dcStats, acStats, coefficients, dcDelta]
readArithmeticSampleBlock(decoder, prevDcCoeff, prevDcDelta, dcTable, acTable, dcStats, acStats, spectralStart, spectralEnd) ==
    Then(dcOfBlock(decoder, prevDcDelta, dcTable, dcStats, spectralStart), LAMBDA dc :
    Then(acOfBlock(dc.decoder, acTable, acStats, spectralStart, spectralEnd), LAMBDA ac :
    [ok |-> TRUE, decoder |-> ac.decoder,
     dcStats |-> dc.stats, acStats |-> ac.stats,
     coefficients |-> IF spectralStart = 0
                      THEN <<prevDcCoeff + dc.result>> \o ac.result
                      ELSE ac.result,
     dcDelta |-> dc.result]))

\* the blocks of one MCU in the order they are decoded, for the first
\* componentIndex components: vertSampling rows of horizSampling blocks of a
\* component when the scan is interleaved, one block otherwise
RECURSIVE mcuBlocks(_, _)
mcuBlocks(header, componentIndex) ==
    IF componentIndex = 0 THEN <<>>
    ELSE LET component   == header.components[componentIndex]
             interleaved == Len(header.components) > 1
             horizBlocks == IF interleaved THEN component.horizSampling ELSE 1
             vertBlocks  == IF interleaved THEN component.vertSampling ELSE 1
         IN  mcuBlocks(header, componentIndex - 1)
             \o [k \in 1..(vertBlocks * horizBlocks) |->
                    [componentIndex |-> componentIndex,
                     i |-> (k - 1) \div horizBlocks,
                     j |-> (k - 1) % horizBlocks]]

rowIndex(this, header, component, nextMcu) ==
    IF Len(header.components) > 1
    THEN (nextMcu \div this.mcusPerRow) * component.vertSampling
    ELSE nextMcu \div component.blocksPerRow

colIndex(this, header, component, nextMcu) ==
    IF Len(header.components) > 1
    THEN (nextMcu % this.mcusPerRow) * component.horizSampling
    ELSE nextMcu % component.blocksPerRow

\* the same with a dummy block stored at the nearest block of the grid
storeBlock_Nearest(coefficients, component, row, col, block) ==
    [coefficients EXCEPT ![component.id][Min(row, component.blocksPerCol - 1) + 1]
                                       [Min(col, component.blocksPerRow - 1) + 1] = block]

\* coeffs[rowIndex + i][colIndex + j] = block, unless the block is a dummy
\* block outside the image
storeBlock(coefficients, component, row, col, block) ==
    IF row >= component.blocksPerCol \/ col >= component.blocksPerRow
    THEN coefficients
    ELSE [coefficients EXCEPT ![component.id][row + 1][col + 1] = block]

\* one block of readHuffmanCodedSegment: block place of the MCU, of component
huffmanBlock(this, header, ecs, nextMcu, before, place, component) ==
    Then(readHuffmanSampleBlock(
             ecs, before.bytePos, before.bitPos, Len(ecs),
             before.prevDcCoeffs[place.componentIndex],
             ElementAt(this.dcDecoders, component.dcTable),
             ElementAt(this.acDecoders, component.acTable), 0, 63),
         LAMBDA read :
    [ok |-> TRUE,
     bytePos |-> read.val[1],
     bitPos |-> read.val[2],
     prevDcCoeffs |->
         [before.prevDcCoeffs EXCEPT ![place.componentIndex] = read.val[3][1]],
     coefficients |->
         storeBlock(before.coefficients, component,
                    rowIndex(this, header, component, nextMcu) + place.i,
                    colIndex(this, header, component, nextMcu) + place.j,
                    read.val[3])])

\* the component of block k of an MCU
componentOf(header, k) ==
    header.components[mcuBlocks(header, Len(header.components))[k].componentIndex]

\* the first k blocks of MCU nextMcu of readHuffmanCodedSegment; segment is
\* [ok, bytePos, bitPos, prevDcCoeffs, coefficients]
RECURSIVE huffmanBlocks(_, _, _, _, _, _)
huffmanBlocks(this, header, ecs, nextMcu, segment, k) ==
    IF k = 0 THEN segment
    ELSE Then(huffmanBlocks(this, header, ecs, nextMcu, segment, k - 1), LAMBDA before :
         huffmanBlock(this, header, ecs, nextMcu, before,
                      mcuBlocks(header, Len(header.components))[k],
                      componentOf(header, k)))

\* this.dcTables[n] || { lowThreshold: 0, highThreshold: 2 }
dcTableOr(dcTables, n) ==
    IF n \in DOMAIN dcTables THEN dcTables[n] ELSE [lowThreshold |-> 0, highThreshold |-> 2]

\* this.acTables[n] || { threshold: 5 }
acTableOr(acTables, n) ==
    IF n \in DOMAIN acTables THEN acTables[n] ELSE [threshold |-> 5]

\* one block of readArithmeticCodedSegment: block place of the MCU, of component
arithmeticBlock(this, header, nextMcu, before, place, component) ==
    Then(readArithmeticSampleBlock(
             before.decoder,
             before.prevDcCoeffs[place.componentIndex],
             before.prevDcDeltas[place.componentIndex],
             dcTableOr(this.dcTables, component.dcTable),
             acTableOr(this.acTables, component.acTable),
             ElementAt(before.dcStats, component.dcTable),
             ElementAt(before.acStats, component.acTable), 0, 63),
         LAMBDA read :
    [ok |-> TRUE,
     decoder |-> read.decoder,
     dcStats |-> SetAt(before.dcStats, component.dcTable, read.dcStats),
     acStats |-> SetAt(before.acStats, component.acTable, read.acStats),
     prevDcCoeffs |->
         [before.prevDcCoeffs EXCEPT ![place.componentIndex] = read.coefficients[1]],
     prevDcDeltas |->
         [before.prevDcDeltas EXCEPT ![place.componentIndex] = read.dcDelta],
     coefficients |->
         storeBlock(before.coefficients, component,
                    rowIndex(this, header, component, nextMcu) + place.i,
                    colIndex(this, header, component, nextMcu) + place.j,
                    read.coefficients)])

\* the first k blocks of MCU nextMcu of readArithmeticCodedSegment; segment is
\* [ok, decoder, dcStats, acStats, prevDcCoeffs, prevDcDeltas, coefficients]
RECURSIVE arithmeticBlocks(_, _, _, _, _)
arithmeticBlocks(this, header, nextMcu, segment, k) ==
    IF k = 0 THEN segment
    ELSE Then(arithmeticBlocks(this, header, nextMcu, segment, k - 1), LAMBDA before :
         arithmeticBlock(this, header, nextMcu, before,
                         mcuBlocks(header, Len(header.components))[k],
                         componentOf(header, k)))

\* restartInterval ? Math.min(restartInterval, totalMcus - mcuNumber) : totalMcus
expectedMcus(this, mcuNumber) ==
    IF this.restartInterval # 0
    THEN Min(this.restartInterval, this.totalMcus - mcuNumber)
    ELSE this.totalMcus

(***************************************************************************)
(* The files of the scan check: SOI, a frame header (SOF0 or SOF9) of one  *)
(* or two components, table segments, a restart interval, and one scan     *)
(* whose entropy-coded segments are separated by RST0.                     *)
(***************************************************************************)

\* the longest entropy-coded segment of the files
MaxEcsLen == 2

EcsBytes == {0, 166}

ScanWidths == {8, 16}

ScanComponents == {1, 2}

RestartIntervals == {0, 1, 2}

\* SOF0 (Huffman) or SOF9 (arithmetic), height 8, components 1..n of sampling 1x1
FrameSegment(marker, width, n) ==
    <<255, marker, 0, 8 + 3 * n, 8, 0, 8, 0, width, n>>
    \o (IF n = 1 THEN <<1, 17, 0>> ELSE <<1, 17, 0, 2, 17, 0>>)

\* a frame of two components, the first of sampling 2x1, the second 1x1
SampledFrameSegment(marker, width) ==
    <<255, marker, 0, 14, 8, 0, 8, 0, width, 2, 1, 33, 0, 2, 17, 0>>

\* DHT: a DC and an AC table numbered th, codes 0, 10, 110
HuffmanSegment(th) ==
    <<255, 196, 0, 42>>
    \o <<th>> \o [len \in 1..16 |-> IF len <= 3 THEN 1 ELSE 0] \o <<0, 1, 2>>
    \o <<16 + th>> \o [len \in 1..16 |-> IF len <= 3 THEN 1 ELSE 0] \o <<0, 1, 240>>

\* DAC: a DC table (L = 0, U = 1) and an AC table (Kx = 5) numbered th
ConditioningSegment(th) == <<255, 204, 0, 6, th, 16, 16 + th, 5>>

\* the table segments of a file: none, tables 0, or tables 1 alone
TableSegments(marker) ==
    IF marker = 192
    THEN {<<>>, HuffmanSegment(0), HuffmanSegment(1)}
    ELSE {<<>>, ConditioningSegment(0), ConditioningSegment(1)}

RestartSegment(interval) ==
    IF interval = 0 THEN <<>> ELSE <<255, 221, 0, 4, 0, interval>>

\* SOS: components 1..n with tables 0, Ss = 0, Se = 63, Ah/Al = 0
ScanSegment(n) ==
    <<255, 218, 0, 6 + 2 * n, n>>
    \o (IF n = 1 THEN <<1, 0>> ELSE <<1, 0, 2, 0>>)
    \o <<0, 63, 0>>

EcsData == SeqsUpTo(EcsBytes, MaxEcsLen)

\* the segment after a restart marker is empty or one byte
RestartData == SeqsUpTo(EcsBytes, 1)

\* one segment, or two with RST0 between them; then EOI or the end of the file
ScanData ==
    {first \o last : first \in EcsData, last \in {<<>>, <<255, 217>>}}
    \cup {((first \o <<255, 208>>) \o second) \o last :
             first \in EcsData, second \in RestartData, last \in {<<>>, <<255, 217>>}}

\* the segments of the interleaved scans of a sampled frame: 0x28 = 0 0 |
\* 10 1 0 | 0 0 gives the second block of the first component the DC
\* difference 1 in a Huffman-coded scan, 0xA6 0x00 gives it a DC difference
\* other than 0 in an arithmetic-coded scan
SampledData == {<<40>>, <<40, 255, 217>>, <<166, 0, 255, 217>>}

\* the JPEG object when the marker loop reaches SOS
tablesRead(this, buffer, index) ==
    IF At(buffer, index + 1) = 196 THEN handleHuffmanSegment(this, buffer, index).val
    ELSE IF At(buffer, index + 1) = 204 THEN handleConditioningSegment(this, buffer, index).val
    ELSE this

restartRead(this, buffer, index) ==
    IF At(buffer, index + 1) = 221 THEN handleRestartInterval(this, buffer, index).val
    ELSE this

\* the file up to its SOS marker, and the JPEG object the marker loop has
\* built when it reaches that marker
ScanFile(frame, tables, restart) ==
    LET buffer == ((<<255, 216>> \o frame) \o tables) \o restart
        framed == frameHeaderSegment(NewJpeg, buffer, 2).val
        tabled == tablesRead(framed, buffer, 2 + Len(frame))
    IN  [buffer |-> buffer,
         jpg    |-> restartRead(tabled, buffer, 2 + Len(frame) + Len(tables))]

\* the state when the marker loop is at the SOS marker of file
AtScan(file, scan) ==
    /\ pc = "scan"
    /\ input = [buffer |-> file.buffer \o scan]
    /\ result = None
    /\ jpg = file.jpg
    /\ local = [index |-> Len(file.buffer)]

\* case 0xDA of the marker loop: the file is at its SOS marker
InitScan ==
    \E marker \in {192, 201}, width \in ScanWidths, interval \in RestartIntervals :
    \E tables \in TableSegments(marker) :
       \/ \E n \in ScanComponents, data \in ScanData :
             \/ AtScan(ScanFile(FrameSegment(marker, width, n), tables,
                                RestartSegment(interval)),
                       ScanSegment(n) \o data)
             \/ /\ n = 1
                /\ AtScan(ScanFile(SampledFrameSegment(marker, width), tables,
                                   RestartSegment(interval)),
                          ScanSegment(1) \o data)
       \/ \E sampled \in SampledData :
             AtScan(ScanFile(SampledFrameSegment(marker, width), tables,
                             RestartSegment(interval)),
                    ScanSegment(2) \o sampled)

\* what an error thrown inside fromBytes leaves: the JPEG object is dropped
Thrown(outcome) ==
    /\ pc' = "thrown"
    /\ result' = outcome
    /\ UNCHANGED <<input, jpg, local>>

\* the scan header has been read, index goes past it
HeaderRead(header) ==
    IF ~header.ok THEN Thrown(header)
    ELSE /\ pc' = "segment"
         /\ local' = [header    |-> header.val,
                      index     |-> local.index
                                    + readUInt16BE(input.buffer, local.index + 2) + 2,
                      mcuNumber |-> 0,
                      segments  |-> 0]
         /\ UNCHANGED <<input, result, jpg>>

\* readBaselineScan: const header = this.readScanHeader(buffer, index)
ReadScanHeader ==
    /\ pc = "scan"
    /\ HeaderRead(readScanHeader(jpg, input.buffer, local.index))

\* the locals of readHuffmanCodedSegment before its loop
huffmanSegment(header) ==
    [prevDcCoeffs |-> Zeros(Len(header.components)), bytePos |-> 0, bitPos |-> 0]

\* the locals of readArithmeticCodedSegment before its loop
arithmeticSegment(header, ecs) ==
    [prevDcCoeffs |-> Zeros(Len(header.components)),
     prevDcDeltas |-> Zeros(Len(header.components)),
     decoder      |-> NewDecoder(ecs)]

\* the statistics areas as the segment reader finds them
clearedFor(this) ==
    IF this.frameData.coding = "huffman" THEN Ok(this)
    ELSE resetArithmeticStatisticsAreas(this)

\* the segment reader is entered with the extracted segment
SegmentStarted(extracted, cleared) ==
    IF ~extracted.ok THEN Thrown(extracted)
    ELSE IF ~cleared.ok THEN Thrown(cleared)
    ELSE /\ pc' = "mcu"
         /\ jpg' = cleared.val
         /\ local' = [header    |-> local.header,
                      index     |-> local.index,
                      mcuNumber |-> local.mcuNumber,
                      segments  |-> local.segments + 1,
                      ecs       |-> extracted.val[1],
                      ecsEnd    |-> extracted.val[2],
                      nextMcu   |-> local.mcuNumber,
                      lastMcu   |-> local.mcuNumber
                                    + expectedMcus(jpg, local.mcuNumber),
                      reader    |-> IF jpg.frameData.coding = "huffman"
                                    THEN huffmanSegment(local.header)
                                    ELSE arithmeticSegment(local.header,
                                                           extracted.val[1])]
         /\ UNCHANGED <<input, result>>

\* one turn of while (true) up to the loop of the segment reader: the segment
\* is extracted, the statistics of an arithmetic-coded scan are reset, and the
\* reader sets up its locals
StartSegment ==
    /\ pc = "segment"
    /\ SegmentStarted(extractEntropyCodedSegment(input.buffer, local.index),
                      clearedFor(jpg))

\* while (nextMcu < lastMcu && bytePos < ecs.length), while (nextMcu < lastMcu)
MoreMcus ==
    /\ local.nextMcu < local.lastMcu
    /\ jpg.frameData.coding = "huffman" => local.reader.bytePos < Len(local.ecs)

\* the blocks of the next MCU of the segment
mcuDecoded(this, reader, header, ecs, nextMcu) ==
    IF this.frameData.coding = "huffman"
    THEN huffmanBlocks(this, header, ecs, nextMcu,
                       [ok |-> TRUE,
                        bytePos |-> reader.bytePos,
                        bitPos |-> reader.bitPos,
                        prevDcCoeffs |-> reader.prevDcCoeffs,
                        coefficients |-> this.coefficients],
                       Len(mcuBlocks(header, Len(header.components))))
    ELSE arithmeticBlocks(this, header, nextMcu,
                          [ok |-> TRUE,
                           decoder |-> reader.decoder,
                           dcStats |-> this.dcStats,
                           acStats |-> this.acStats,
                           prevDcCoeffs |-> reader.prevDcCoeffs,
                           prevDcDeltas |-> reader.prevDcDeltas,
                           coefficients |-> this.coefficients],
                          Len(mcuBlocks(header, Len(header.components))))

\* the MCU is stored and nextMcu++
McuDecoded(decoded) ==
    IF ~decoded.ok THEN Thrown(decoded)
    ELSE /\ jpg' = IF jpg.frameData.coding = "huffman"
                   THEN [jpg EXCEPT !.coefficients = decoded.coefficients]
                   ELSE [jpg EXCEPT !.coefficients = decoded.coefficients,
                                    !.dcStats = decoded.dcStats,
                                    !.acStats = decoded.acStats]
         /\ local' = [local EXCEPT
                !.nextMcu = @ + 1,
                !.reader =
                    IF jpg.frameData.coding = "huffman"
                    THEN [prevDcCoeffs |-> decoded.prevDcCoeffs,
                          bytePos |-> decoded.bytePos,
                          bitPos |-> decoded.bitPos]
                    ELSE [prevDcCoeffs |-> decoded.prevDcCoeffs,
                          prevDcDeltas |-> decoded.prevDcDeltas,
                          decoder |-> decoded.decoder]]
         /\ UNCHANGED <<pc, input, result>>

\* one turn of the loop of a segment reader: the blocks of one MCU
DecodeMcu ==
    /\ pc = "mcu"
    /\ MoreMcus
    /\ McuDecoded(mcuDecoded(jpg, local.reader, local.header, local.ecs, local.nextMcu))

\* the segment reader returns; mcuNumber += expectedMcus; a restart marker
\* after the segment starts the next turn, anything else ends the scan
EndSegment ==
    /\ pc = "mcu"
    /\ ~MoreMcus
    /\ local' = [local EXCEPT
           !.mcuNumber = local.lastMcu,
           !.index = IF At(input.buffer, local.ecsEnd + 1) \in 208..215
                     THEN local.ecsEnd + 2 ELSE @]
    /\ pc' = IF At(input.buffer, local.ecsEnd + 1) \in 208..215
             THEN "segment" ELSE "scanned"
    /\ UNCHANGED <<input, result, jpg>>

NextScan == ReadScanHeader \/ StartSegment \/ DecodeMcu \/ EndSegment

SpecScan == InitScan /\ [][NextScan]_vars

\* a segment reader is at the top of its loop and has decoded no MCU yet
SegmentStart == pc = "mcu" /\ local.nextMcu = local.mcuNumber

\* every context of a statistics area is in state 0 with MPS false
Cleared(stats) ==
    \A k \in 1..Len(stats.states) :
        stats.states[k] = 0 /\ ~stats.moreProbableSymbol[k]

\* C6: at the start of every entropy-coded segment, the first of a scan and
\* each one after a restart marker, the DC predictor of every scan component
\* is 0, and in an arithmetic-coded scan the previous DC difference of every
\* scan component is 0 and every context of every statistics area has state 0
\* and MPS false.
C6_SegmentStartsClean ==
    SegmentStart =>
        /\ \A c \in 1..Len(local.header.components) :
               local.reader.prevDcCoeffs[c] = 0
        /\ jpg.frameData.coding # "huffman" =>
               /\ \A c \in 1..Len(local.header.components) :
                      local.reader.prevDcDeltas[c] = 0
               /\ \A n \in DOMAIN jpg.dcStats : Cleared(jpg.dcStats[n])
               /\ \A n \in DOMAIN jpg.acStats : Cleared(jpg.acStats[n])

\* a segment after a restart marker starts in an arithmetic-coded scan whose
\* statistics areas exist, and the segment before it has stored a block with
\* a DC coefficient other than 0
C6_Witness ==
    /\ SegmentStart
    /\ local.segments >= 2
    /\ jpg.frameData.coding # "huffman"
    /\ DOMAIN jpg.dcStats # {} /\ DOMAIN jpg.acStats # {}
    /\ jpg.coefficients[1][1][1][1] # 0

\* C8 as stated, for the segment readers: a segment reader that has returned
\* has decoded all of the MCUs expected of the segment.
C8_AllMcusDecoded ==
    (pc \in {"segment", "scanned"} /\ local.segments >= 1) =>
        local.nextMcu = local.lastMcu

\* C12 as stated: with restart interval 0 a scan is one entropy-coded segment:
\* a further segment is never started (with its DC predictors and statistics
\* reset) while MCUs of the scan are still to be decoded.
C12_SingleSegment ==
    [][(jpg.restartInterval = 0 /\ pc = "segment" /\ pc' = "mcu")
       => (local.segments = 0 \/ local.nextMcu >= jpg.totalMcus)]_vars

\* the blocks of the only component of a non-interleaved scan
blocksOf(component) == component.blocksPerRow * component.blocksPerCol

\* C18 as stated: a non-interleaved scan decodes exactly blocksPerRow *
\* blocksPerCol blocks of its component whatever the frame's totalMcus is:
\* with no restart interval its first segment is read up to that many MCUs,
\* with a restart interval R up to the smaller of R and that number.
C18_NonInterleavedBlocks ==
    (pc = "mcu" /\ Len(local.header.components) = 1 /\ local.segments = 1)
    => local.lastMcu = IF jpg.restartInterval = 0
                       THEN blocksOf(local.header.components[1])
                       ELSE Min(jpg.restartInterval,
                                blocksOf(local.header.components[1]))

\* the same for frames whose components all have sampling factors 1x1
C18_UnsampledBlocks ==
    (/\ pc = "mcu" /\ Len(local.header.components) = 1 /\ local.segments = 1
     /\ \A c \in DOMAIN jpg.frameData.components :
           /\ jpg.frameData.components[c].horizSampling = 1
           /\ jpg.frameData.components[c].vertSampling = 1)
    => local.lastMcu = IF jpg.restartInterval = 0
                       THEN blocksOf(local.header.components[1])
                       ELSE Min(jpg.restartInterval,
                                blocksOf(local.header.components[1]))

(***************************************************************************)
(* Finalization of a block (src/jpeg.js fromBytes): the decoded            *)
(* coefficients are dequantized and put in natural order.  Element k of a  *)
(* JavaScript array is element k + 1 of the sequence.                      *)
(***************************************************************************)

zigzagSequence ==
    <<0,
      1, 8,
      16, 9, 2,
      3, 10, 17, 24,
      32, 25, 18, 11, 4,
      5, 12, 19, 26, 33, 40,
      48, 41, 34, 27, 20, 13, 6,
      7, 14, 21, 28, 35, 42, 49, 56,
      57, 50, 43, 36, 29, 22, 15,
      23, 30, 37, 44, 51, 58,
      59, 52, 45, 38, 31,
      39, 46, 53, 60,
      61, 54, 47,
      55, 62,
      63>>

\* coefficients[i] *= quantTable[i]; a table without element i gives NaN
dequantizeCoefficients(coefficients, quantTable) ==
    [i \in 1..Len(coefficients) |->
        IF i <= Len(quantTable) THEN coefficients[i] * quantTable[i] ELSE Undefined]

\* permutation[i] = coefficients[zigzagSequence[i]], the order not inverted
inverseZigzagOrder_Forward(coefficients) ==
    IF Len(coefficients) # 64
    THEN Throw("Expected 64 coefficients")
    ELSE Ok([n \in 1..64 |-> coefficients[zigzagSequence[n] + 1]])

\* permutation[zigzagSequence[i]] = coefficients[i]
inverseZigzagOrder(coefficients) ==
    IF Len(coefficients) # 64
    THEN Throw("Expected 64 coefficients")
    ELSE Ok([n \in 1..64 |->
                coefficients[CHOOSE i \in 1..64 : zigzagSequence[i] = n - 1]])

\* the largest magnitude of a coefficient of the blocks of the check
MaxCoefficient == 2

\* blocks with one coefficient set, a block whose coefficients all differ,
\* and blocks that are not 64 long
FinalBlocks ==
    {[k \in 1..64 |-> IF k = at THEN v ELSE 0] :
        at \in 1..64, v \in (-MaxCoefficient..MaxCoefficient) \ {0}}
    \cup {[k \in 1..64 |-> k - 32], [k \in 1..63 |-> 1], [k \in 1..65 |-> 1]}

\* quantization tables of 8-bit and of 16-bit values
FinalTables ==
    {[k \in 1..64 |-> 1], [k \in 1..64 |-> k], [k \in 1..64 |-> 256 - k],
     [k \in 1..64 |-> 65536 - 1000 * k]}

InitFinal ==
    /\ pc = "decoded"
    /\ input \in [coefficients : FinalBlocks, quantTable : FinalTables]
    /\ result = None
    /\ jpg = NewJpeg
    /\ local = <<>>

\* coeffBlock.splice(0, 64, ...jpg.inverseZigzagOrder(
\*     jpg.dequantizeCoefficients(coeffBlock, quantTable)))
FinalizeBlock ==
    /\ pc = "decoded"
    /\ pc' = "final"
    /\ result' = inverseZigzagOrder(
                     dequantizeCoefficients(input.coefficients, input.quantTable))
    /\ UNCHANGED <<input, jpg, local>>

NextFinal == FinalizeBlock

SpecFinal == InitFinal /\ [][NextFinal]_vars

\* the standard zig-zag order of the 8x8 block: the number of positions
\* before <<row, col>>, which are those of the diagonals before its own and,
\* on its own diagonal, those above it when the diagonal is walked downwards
\* (row + col odd) and those below it when it is walked upwards
ZigZagRank(row, col) ==
    Cardinality(
        {at \in (0..7) \X (0..7) :
            \/ at[1] + at[2] < row + col
            \/ /\ at[1] + at[2] = row + col
               /\ IF (row + col) % 2 = 1 THEN at[1] < row ELSE at[1] > row})

SampleUnit == 4

\* the largest magnitude of a sample of the check
MaxSample == 160

\* the largest width and height of the grayscale frames of the check
MaxGrayDim == 2

\* raster[index] = value: ToUint8 of the Buffer
StoreByte(value) ==
    (IF value >= 0 THEN value \div SampleUnit ELSE -((-value) \div SampleUnit)) % 256

\* Math.round(Math.min(Math.max(value, 0), 255))
clampRGB(value) ==
    (2 * Min(Max(value, 0), 255 * SampleUnit) + SampleUnit) \div (2 * SampleUnit)

\* raster[rasterIndex] = raster[rasterIndex+1] = raster[rasterIndex+2] =
\*     samples[0][y*8 + x] + 128, for the (x, y) of the area
paintGrayscalePixels(this, raster, samples, area) ==
    [k \in 1..Len(raster) |->
        IF \E x \in 0..(area.xEnd - area.xStart - 1),
              y \in 0..(area.yEnd - area.yStart - 1) :
              (k - 1) \div 3 = rasterIndex(this, area, x, y) \div 3
        THEN StoreByte(
                 samples[1][8 * ((((k - 1) \div 3) \div this.frameData.width) - area.yStart)
                            + ((((k - 1) \div 3) % this.frameData.width) - area.xStart) + 1]
                 + 128 * SampleUnit)
        ELSE raster[k]]

\* a block of samples around the sample level
GraySamples(level) == [k \in 1..64 |-> level + (k - 1)]

\* a grayscale frame of one MCU and the samples the inverse DCT gave
InitGray ==
    /\ pc = "paint"
    /\ input \in [width  : 1..MaxGrayDim,
                  height : 1..MaxGrayDim,
                  level  : (-MaxSample * SampleUnit)..(MaxSample * SampleUnit)]
    /\ result = None
    /\ jpg = handleFrameHeader(
                [width |-> input.width, height |-> input.height,
                 components |-> <<[id |-> 1, horizSampling |-> 1, vertSampling |-> 1]>>])
    /\ local = [raster |-> [k \in 1..(3 * input.width * input.height) |-> 0]]

\* jpg.paintPixels(raster, mcu, jpg.frameData.components, 0) of a frame of
\* one component
PaintGray ==
    /\ pc = "paint"
    /\ pc' = "painted"
    /\ local' = [raster |-> paintGrayscalePixels(jpg, local.raster,
                                                <<GraySamples(input.level)>>,
                                                mcuArea(jpg, 0))]
    /\ UNCHANGED <<input, result, jpg>>

NextGray == PaintGray

SpecGray == InitGray /\ [][NextGray]_vars

\* the sample of pixel (x, y) of the frame, with the level shift undone
GrayValue(x, y) == GraySamples(input.level)[8 * y + x + 1] + 128 * SampleUnit

\* C14 as stated: every pixel of a grayscale image gets R = G = B =
\* round(Y + 128) clamped to 0..255, also when Y + 128 is below 0 or above
\* 255; the stored byte is never the value wrapped modulo 256.
C14_GrayClamped ==
    pc = "painted" =>
        \A x \in 0..(input.width - 1), y \in 0..(input.height - 1), c \in 1..3 :
            local.raster[3 * (y * input.width + x) + c] = clampRGB(GrayValue(x, y))

\* C14 for the values the code stores as claimed: whole numbers in 0..255
C14_WholeInRange ==
    pc = "painted" =>
        \A x \in 0..(input.width - 1), y \in 0..(input.height - 1), c \in 1..3 :
            (GrayValue(x, y) % SampleUnit = 0
             /\ GrayValue(x, y) \in 0..(255 * SampleUnit))
            => local.raster[3 * (y * input.width + x) + c] = clampRGB(GrayValue(x, y))

(***************************************************************************)
(* alignSamples (src/jpeg.js), for sampling factors that divide the        *)
(* largest ones, so that xScale and yScale are whole numbers.  An array is *)
(* a function on the indices that have been assigned.                      *)
(***************************************************************************)

\* block[Math.floor(y / yScale)*8 + Math.floor(x / xScale)], not scaled
sampleOf_Unscaled(block, x, y, xScale, yScale) == block[(y % 8) * 8 + (x % 8) + 1]

\* block[Math.floor(y / yScale)*8 + Math.floor(x / xScale)]
sampleOf(block, x, y, xScale, yScale) == block[(y \div yScale) * 8 + (x \div xScale) + 1]

\* the assignments of the loops over blockY, blockX, y, x for one component
\* whose first block is samples[blockIndex]: the index written, the place of
\* the assignment in the order of the loops, and the value
alignWrites(this, component, samples, blockIndex, xScale, yScale) ==
    {[index |-> (y + (blockY * 8 * yScale)) * this.mcuPixelWidth
                + (x + (blockX * 8 * xScale)),
      order |-> (((blockY * component.horizSampling + blockX) * 8 * yScale) + y)
                * 8 * xScale + x,
      value |-> sampleOf(samples[blockIndex + blockY * component.horizSampling + blockX + 1],
                         x, y, xScale, yScale)] :
        blockY \in 0..(component.vertSampling - 1),
        blockX \in 0..(component.horizSampling - 1),
        y \in 0..(8 * yScale - 1),
        x \in 0..(8 * xScale - 1)}

\* the array the assignments leave: the last assignment to an index stays
arrayOf(writes) ==
    [index \in {w.index : w \in writes} |->
        (CHOOSE w \in writes :
            /\ w.index = index
            /\ \A other \in writes : other.index = index => other.order <= w.order).value]

\* the number of blocks of the components before component i
RECURSIVE blocksBefore(_, _)
blocksBefore(components, i) ==
    IF i = 1 THEN 0
    ELSE blocksBefore(components, i - 1)
         + components[i - 1].vertSampling * components[i - 1].horizSampling

alignSamples(this, components, samples) ==
    [i \in 1..Len(components) |->
        arrayOf(alignWrites(this, components[i], samples, blocksBefore(components, i),
                            this.maxHorizSampling \div components[i].horizSampling,
                            this.maxVertSampling \div components[i].vertSampling))]

\* the sampling factors of the three components of the frames of the check
AlignSamplings ==
    {<<first, second, third>> :
        first \in (1..2) \X (1..2), second \in (1..2) \X (1..2),
        third \in (1..2) \X (1..2)}
    \cup {<<<<4, 2>>, <<1, 1>>, <<2, 2>>>>, <<<<1, 1>>, <<1, 4>>, <<1, 2>>>>}

\* the value that stands for sample k of block b of the MCU
SampleMark(b, k) == 100 * b + k

\* the blocks of one MCU, as many as the components need
AlignBlocks(components) ==
    [b \in 1..(blocksBefore(components, Len(components) + 1)) |->
        [k \in 1..64 |-> SampleMark(b - 1, k - 1)]]

InitAlign ==
    /\ pc = "align"
    /\ input \in {[width |-> 16, height |-> height,
                   components |-> [i \in 1..3 |->
                       [id |-> i, horizSampling |-> sampling[i][1],
                        vertSampling |-> sampling[i][2]]]] :
                     sampling \in AlignSamplings, height \in {8, 16}}
    /\ result = None
    /\ jpg = handleFrameHeader(input)
    /\ local = <<>>

\* const alignedSamples = this.alignSamples(components, samples)
AlignSamples ==
    /\ pc = "align"
    /\ pc' = "aligned"
    /\ result' = alignSamples(jpg, jpg.frameData.components,
                              AlignBlocks(jpg.frameData.components))
    /\ UNCHANGED <<input, jpg, local>>

NextAlign == AlignSamples

SpecAlign == InitAlign /\ [][NextAlign]_vars

\* C15: for every component with sampling factors (h, v), h dividing maxH
\* and v dividing maxV, the aligned array has mcuPxW * mcuPxH entries, all
\* assigned, and entry (x, y) is sample (floor(y / (maxV/v)) mod 8,
\* floor(x / (maxH/h)) mod 8) of the component's block number
\* floor(y / (8*maxV/v)) * h + floor(x / (8*maxH/h)) within the MCU.
C15_Aligned ==
    pc = "aligned" =>
        \A i \in 1..Len(jpg.frameData.components) :
            /\ DOMAIN result[i] = 0..(jpg.mcuPixelWidth * jpg.mcuPixelHeight - 1)
            /\ \A x \in 0..(jpg.mcuPixelWidth - 1), y \in 0..(jpg.mcuPixelHeight - 1) :
                   result[i][y * jpg.mcuPixelWidth + x] =
                       SampleMark(
                           blocksBefore(jpg.frameData.components, i)
                           + (y \div (8 * (jpg.maxVertSampling
                                           \div jpg.frameData.components[i].vertSampling)))
                             * jpg.frameData.components[i].horizSampling
                           + (x \div (8 * (jpg.maxHorizSampling
                                           \div jpg.frameData.components[i].horizSampling))),
                           ((y \div (jpg.maxVertSampling
                                     \div jpg.frameData.components[i].vertSampling)) % 8) * 8
                           + ((x \div (jpg.maxHorizSampling
                                       \div jpg.frameData.components[i].horizSampling)) % 8))

\* a 2x2 luminance component with 1x1 chrominance components has been
\* aligned: each chrominance sample fills a 2x2 square of the 16x16 grid
C15_Witness ==
    /\ pc = "aligned"
    /\ jpg.maxHorizSampling = 2 /\ jpg.maxVertSampling = 2
    /\ jpg.frameData.components[1].horizSampling = 2
    /\ jpg.frameData.components[1].vertSampling = 2
    /\ jpg.frameData.components[2].horizSampling = 1
    /\ jpg.frameData.components[2].vertSampling = 1
    /\ result[2][17] = result[2][0]
    /\ result[2][2] # result[2][0]

(***************************************************************************)
(* readHuffmanSampleBlock (jpeg.js) and decodeACCoefficients               *)
(* (arithmetic.js) on one block of a spectral band                         *)
(***************************************************************************)

MaxBlockBytes == 2

\* bytes whose bits spell the codes of HuffmanSegment: 0 (end of block),
\* 10 (a coefficient of one bit), 110 (sixteen zeros)
HuffmanBlockBytes == {0, 109, 182, 216}

ArithmeticBlockBytes == {0, 32, 109, 166}

\* <<Ss, Se>> of the block: a whole block, and bands of 5, 2 and 58 coefficients
BlockBands == {<<0, 63>>, <<1, 5>>, <<1, 2>>, <<6, 63>>}

\* the JPEG object with the tables 0 of its coding defined
BlockJpeg(marker) ==
    ScanFile(FrameSegment(marker, 8, 1),
             IF marker = 192 THEN HuffmanSegment(0) ELSE ConditioningSegment(0),
             <<>>).jpg

InitBlock ==
    \E marker \in {192, 201}, band \in BlockBands :
    \E buffer \in SeqsUpTo(IF marker = 192 THEN HuffmanBlockBytes
                           ELSE ArithmeticBlockBytes, MaxBlockBytes) :
       /\ marker = 201 => band[1] > 0
       /\ pc = "block"
       /\ input = [buffer |-> buffer, spectralStart |-> band[1], spectralEnd |-> band[2]]
       /\ result = None
       /\ jpg = BlockJpeg(marker)
       /\ local = [nCoefficients |-> band[2] - band[1] + 1]

\* const [, , coefficients] = this.readHuffmanSampleBlock(...)
HuffmanBlockRead(read) ==
    /\ pc' = "read"
    /\ result' = IF read.ok THEN Ok(read.val[3]) ELSE read
    /\ UNCHANGED <<input, jpg, local>>

ReadHuffmanBlock ==
    /\ pc = "block"
    /\ jpg.frameData.coding = "huffman"
    /\ HuffmanBlockRead(readHuffmanSampleBlock(
           input.buffer, 0, 0, Len(input.buffer), 0,
           ElementAt(jpg.dcDecoders, 0), ElementAt(jpg.acDecoders, 0),
           input.spectralStart, input.spectralEnd))

\* coefficients.push(...decoder.decodeACCoefficients(...))
ArithmeticBlockRead(read) ==
    /\ pc' = "read"
    /\ result' = IF read.ok THEN Ok(read.result) ELSE [ok |-> FALSE, err |-> read.err]
    /\ UNCHANGED <<input, jpg, local>>

ReadArithmeticBlock ==
    /\ pc = "block"
    /\ jpg.frameData.coding # "huffman"
    /\ ArithmeticBlockRead(decodeACCoefficients(
           NewDecoder(input.buffer), jpg.acStats[0], acTableOr(jpg.acTables, 0).threshold,
           input.spectralStart, input.spectralEnd))

NextBlock == ReadHuffmanBlock \/ ReadArithmeticBlock

SpecBlock == InitBlock /\ [][NextBlock]_vars

\* C17 as stated: readHuffmanSampleBlock and decodeACCoefficients return
\* exactly Se - Ss + 1 coefficients for every input, zero runs that reach
\* past the end of the band included (a whole block has exactly 64 entries).
C17_BandLength ==
    (pc = "read" /\ result.ok) => Len(result.val) = local.nCoefficients

\* the arithmetic reader alone returns exactly Se - Ss + 1 coefficients
C17_ArithmeticBandLength ==
    (pc = "read" /\ result.ok /\ jpg.frameData.coding # "huffman")
    => Len(result.val) = local.nCoefficients

\* a block is never shorter than its band
C17_AtLeastBand ==
    (pc = "read" /\ result.ok) => Len(result.val) >= local.nCoefficients

(***************************************************************************)
(* Progressive scans with Huffman coding (src/jpeg.js):                    *)
(* readSuccessiveApproximationBits, refineApproximateHuffmanCoefficients,  *)
(* readProgressiveHuffmanCodedSegment, readProgressiveScan.  The functions *)
(* change the block in place; here they return it with the cursor.         *)
(***************************************************************************)

\* (c << 1) + (bit ? (c > 0 ? 1 : -1) : 0)
refined(coefficient, bit) ==
    ShiftLeft32(coefficient, 1) + (IF bit THEN (IF coefficient > 0 THEN 1 ELSE -1) ELSE 0)

\* the same of coefficients[i]; an element that is not there is undefined,
\* and undefined << 1 is 0
refinedAt(coefficients, i, bit) ==
    IF i >= 0 /\ i < Len(coefficients) THEN refined(coefficients[i + 1], bit)
    ELSE IF bit THEN -1 ELSE 0

\* coefficients[i] !== 0
NonZeroAt(coefficients, i) == ~(i >= 0 /\ i < Len(coefficients)) \/ coefficients[i + 1] # 0

\* var bitsNeeded = readSignBit ? 1 : 0; for (...) if (coefficients[i] !== 0) bitsNeeded++
bitsNeededFor(coefficients, start, end, readSignBit) ==
    (IF readSignBit THEN 1 ELSE 0)
    + Cardinality({i \in start..(end - 1) : NonZeroAt(coefficients, i)})

\* for (var i = start; i < end; i++) of readSuccessiveApproximationBits, from
\* i on: gives the block and the start of the next turn
RECURSIVE refineFrom(_, _, _, _, _, _)
refineFrom(coefficients, start, i, end, bits, mask) ==
    IF i >= end THEN [coefficients |-> coefficients, start |-> start]
    ELSE IF ~NonZeroAt(coefficients, i)
    THEN refineFrom(coefficients, start, i + 1, end, bits, mask)
    ELSE IF mask \div 2 = 0
    THEN [coefficients |-> SetAt(coefficients, i + 1,
                                 refinedAt(coefficients, i, AndNat(bits, mask) # 0)),
          start |-> i + 1]
    ELSE refineFrom(SetAt(coefficients, i + 1,
                          refinedAt(coefficients, i, AndNat(bits, mask) # 0)),
                    start, i + 1, end, bits, mask \div 2)

\* if (readSignBit) { coefficients[end] = (bits & mask) ? 1 : -1; mask >>= 1 }
signPlaced(coefficients, end, readSignBit, bits, mask) ==
    IF readSignBit
    THEN SetAt(coefficients, end + 1, IF AndNat(bits, mask) # 0 THEN 1 ELSE -1)
    ELSE coefficients

RECURSIVE readApproximationBits(_, _, _, _, _, _, _, _)

\* the next turn of while (bitsNeeded > 0) after the for loop has given turn
approximationTurn(turn, end, bitsNeeded, buffer, index, bitIndex) ==
    readApproximationBits(turn.coefficients, turn.start, end, FALSE, bitsNeeded,
                          buffer, index, bitIndex)

\* while (bitsNeeded > 0) { nBits = Math.min(bitsNeeded, 31); ... }
readApproximationBits(coefficients, start, end, readSignBit, bitsNeeded, buffer, index, bitIndex) ==
    IF bitsNeeded <= 0 THEN Ok(<<index, bitIndex, coefficients>>)
    ELSE Then(readBits(buffer, index, bitIndex, Min(bitsNeeded, 31)), LAMBDA read :
         approximationTurn(
             refineFrom(signPlaced(coefficients, end, readSignBit, read.val[3],
                                   Pow2(Min(bitsNeeded, 31) - 1)),
                        start, start, end, read.val[3],
                        IF readSignBit THEN Pow2(Min(bitsNeeded, 31) - 1) \div 2
                        ELSE Pow2(Min(bitsNeeded, 31) - 1)),
             end, bitsNeeded - Min(bitsNeeded, 31), buffer, read.val[1], read.val[2]))

\* returns <<index, bitIndex, coefficients>>
readSuccessiveApproximationBits(coefficients, start, end, readSignBit, buffer, index, bitIndex) ==
    readApproximationBits(coefficients, start, end, readSignBit,
                          bitsNeededFor(coefficients, start, end, readSignBit),
                          buffer, index, bitIndex)

\* composite === 0xF0: the positions passed to skip sixteen zeros
RECURSIVE skipSixteen(_, _, _, _, _)
skipSixteen(coefficients, zigZagIndex, spectralEnd, skipZeroes, skipPositions) ==
    IF ~(zigZagIndex + skipPositions < spectralEnd) THEN skipPositions
    ELSE IF ~NonZeroAt(coefficients, zigZagIndex + skipPositions)
    THEN IF skipZeroes - 1 = 0 THEN skipPositions + 1
         ELSE skipSixteen(coefficients, zigZagIndex, spectralEnd, skipZeroes - 1,
                          skipPositions + 1)
    ELSE skipSixteen(coefficients, zigZagIndex, spectralEnd, skipZeroes, skipPositions + 1)

\* a coefficient after a run: the positions passed before the new coefficient
RECURSIVE skipRun(_, _, _, _, _)
skipRun(coefficients, zigZagIndex, spectralEnd, skipZeroes, skipPositions) ==
    IF ~(zigZagIndex + skipPositions < spectralEnd) THEN skipPositions
    ELSE IF ~NonZeroAt(coefficients, zigZagIndex + skipPositions)
    THEN IF skipZeroes = 0 THEN skipPositions
         ELSE skipRun(coefficients, zigZagIndex, spectralEnd, skipZeroes - 1,
                      skipPositions + 1)
    ELSE skipRun(coefficients, zigZagIndex, spectralEnd, skipZeroes, skipPositions + 1)

\* the last branch of the loop of refineApproximateHuffmanCoefficients for a
\* composite of magnitude 1 and run skipZeroes: gives <<index, bitIndex,
\* coefficients, zigZagIndex>>
placedAfter(skipPositions, coefficients, zigZagIndex, buffer, index, bitIndex) ==
    Then(readSuccessiveApproximationBits(coefficients, zigZagIndex,
                                         zigZagIndex + skipPositions, TRUE,
                                         buffer, index, bitIndex),
         LAMBDA read :
    Ok(<<read.val[1], read.val[2], read.val[3], zigZagIndex + skipPositions + 1>>))

placeCoefficient(coefficients, zigZagIndex, spectralEnd, skipZeroes, buffer, index, bitIndex) ==
    placedAfter(skipRun(coefficients, zigZagIndex, spectralEnd, skipZeroes, 0),
                coefficients, zigZagIndex, buffer, index, bitIndex)

\* the branch of composite 0xF0
skippedAfter(skipPositions, coefficients, zigZagIndex, buffer, index, bitIndex) ==
    Then(readSuccessiveApproximationBits(coefficients, zigZagIndex,
                                         zigZagIndex + skipPositions, FALSE,
                                         buffer, index, bitIndex),
         LAMBDA read :
    Ok(<<read.val[1], read.val[2], read.val[3], zigZagIndex + skipPositions>>))

\* the branches of an end of block and of a run of zero bands: the rest of
\* the band is refined and the function returns <<index, bitIndex,
\* coefficients, zeroBands>> (zeroBands undefined after an end of block)
bandRefined(coefficients, zigZagIndex, spectralEnd, buffer, bands) ==
    Then(readSuccessiveApproximationBits(coefficients, zigZagIndex, spectralEnd + 1,
                                         FALSE, buffer, bands.val[1], bands.val[2]),
         LAMBDA read :
    Ok(<<read.val[1], read.val[2], read.val[3], bands.val[3]>>))

\* while (zigZagIndex <= spectralEnd) { ... }
RECURSIVE refineLoop(_, _, _, _, _, _, _, _)
refineLoop(coefficients, buffer, index, bitIndex, end, acDecoder, zigZagIndex, spectralEnd) ==
    IF ~(zigZagIndex <= spectralEnd) THEN Ok(<<index, bitIndex, coefficients, Undefined>>)
    ELSE
    Then(decodeOne(buffer, index, end, bitIndex, acDecoder), LAMBDA composite :
    IF composite.val[3] = 0
    THEN bandRefined(coefficients, zigZagIndex, spectralEnd, buffer,
                     Ok(<<composite.val[1], composite.val[2], Undefined>>))
    ELSE IF composite.val[3] % 16 = 0 /\ composite.val[3] # 240
    THEN Then(readBits(buffer, composite.val[1], composite.val[2],
                       composite.val[3] \div 16),
              LAMBDA bands :
         bandRefined(coefficients, zigZagIndex, spectralEnd, buffer,
                     Ok(<<bands.val[1], bands.val[2],
                          bands.val[3] + Pow2(composite.val[3] \div 16) - 1>>)))
    ELSE IF composite.val[3] = 240
    THEN Then(skippedAfter(skipSixteen(coefficients, zigZagIndex, spectralEnd, 16, 0),
                           coefficients, zigZagIndex, buffer,
                           composite.val[1], composite.val[2]),
              LAMBDA skipped :
         refineLoop(skipped.val[3], buffer, skipped.val[1], skipped.val[2], end,
                    acDecoder, skipped.val[4], spectralEnd))
    ELSE IF composite.val[3] % 16 # 1
    THEN Throw("On successive approximation refinement scan, magnitude of encoded coefficients must be 1")
    ELSE Then(placeCoefficient(coefficients, zigZagIndex, spectralEnd,
                               composite.val[3] \div 16, buffer,
                               composite.val[1], composite.val[2]),
              LAMBDA placed :
         refineLoop(placed.val[3], buffer, placed.val[1], placed.val[2], end,
                    acDecoder, placed.val[4], spectralEnd)))

\* if (zigZagIndex === 0) { coefficients[0] = (coefficients[0] << 1) | bit; zigZagIndex++ }
dcRefined(coefficients, bit) ==
    SetAt(coefficients, 1, BitOr32(ShiftLeft32(coefficients[1], 1), bit))

\* returns <<index, bitIndex, coefficients, zeroBands>>
refineApproximateHuffmanCoefficients(coefficients, buffer, index, bitIndex, end, dcDecoder, acDecoder, spectralStart, spectralEnd) ==
    IF spectralStart = 0
    THEN Then(readBits(buffer, index, bitIndex, 1), LAMBDA bit :
         refineLoop(dcRefined(coefficients, bit.val[3]), buffer, bit.val[1], bit.val[2],
                    end, acDecoder, 1, spectralEnd))
    ELSE refineLoop(coefficients, buffer, index, bitIndex, end, acDecoder,
                    spectralStart, spectralEnd)

(***************************************************************************)
(* One composite symbol of magnitude 1 in a Huffman refinement scan: the   *)
(* last branch of the loop of refineApproximateHuffmanCoefficients.        *)
(***************************************************************************)

\* the band is 1..spectralEnd with spectralEnd at most MaxBand
MaxBand == 3

\* the longest run RRRR of the symbol
MaxRun == 2

\* what earlier scans left at a position of the band
RefineValues == {0, 1, -2}

\* the sign bit and the correction bits that follow the symbol
RefineBytes == {0, 64, 160, 192}

\* a block whose positions 1..MaxBand hold band and whose other entries are 0
BlockOf(band) == [k \in 1..64 |-> IF k - 1 \in 1..Len(band) THEN band[k - 1] ELSE 0]

InitRefine ==
    \E band \in SeqsOfLen(RefineValues, MaxBand), spectralEnd \in 1..MaxBand :
    \E zigZagIndex \in 1..spectralEnd, skipZeroes \in 0..MaxRun, byte \in RefineBytes :
       /\ pc = "symbol"
       /\ input = [coefficients |-> BlockOf(band), spectralStart |-> 1,
                   spectralEnd |-> spectralEnd, zigZagIndex |-> zigZagIndex,
                   skipZeroes |-> skipZeroes, buffer |-> <<byte>>]
       /\ result = None
       /\ jpg = NewJpeg
       /\ local = [signBit |-> byte \div 128]

PlaceCoefficient ==
    /\ pc = "symbol"
    /\ pc' = "placed"
    /\ result' = placeCoefficient(input.coefficients, input.zigZagIndex, input.spectralEnd,
                                  input.skipZeroes, input.buffer, 0, 0)
    /\ UNCHANGED <<input, jpg, local>>

NextRefine == PlaceCoefficient

SpecRefine == InitRefine /\ [][NextRefine]_vars

\* the position the new coefficient was written to
PlacedAt == result.val[4] - 1

\* the positions the symbol has passed
PassedPositions == input.zigZagIndex..(PlacedAt - 1)

\* the new coefficient is in the band, at or after the current position
C20_InsideBand ==
    (pc = "placed" /\ result.ok)
    => /\ PlacedAt >= input.zigZagIndex
       /\ PlacedAt <= input.spectralEnd
       /\ \A k \in 0..63 : (k < input.zigZagIndex \/ k > PlacedAt)
              => result.val[3][k + 1] = input.coefficients[k + 1]

\* every non-zero coefficient passed gets one correction bit, every zero
\* passed stays zero, and the new coefficient is +1 for sign bit 1, -1 for 0
C20_PassedRefined ==
    (pc = "placed" /\ result.ok)
    => /\ \A k \in PassedPositions :
              \/ input.coefficients[k + 1] = 0 /\ result.val[3][k + 1] = 0
              \/ /\ input.coefficients[k + 1] # 0
                 /\ result.val[3][k + 1]
                        \in {refined(input.coefficients[k + 1], bit) : bit \in BOOLEAN}
       /\ result.val[3][PlacedAt + 1] = IF local.signBit = 1 THEN 1 ELSE -1

\* exactly RRRR zero-valued coefficients are passed
C20_RunPassed ==
    (pc = "placed" /\ result.ok)
    => Cardinality({k \in PassedPositions : input.coefficients[k + 1] = 0})
       = input.skipZeroes

\* the position written held zero before
C20_NothingOverwritten ==
    (pc = "placed" /\ result.ok) => input.coefficients[PlacedAt + 1] = 0

\* C20 as stated: in Huffman AC refinement a symbol with SSSS = 1 and run
\* RRRR passes exactly RRRR zero-valued coefficients, adds a correction bit
\* to every non-zero coefficient it passes, and places the new coefficient
\* (+1 for sign bit 1, -1 for 0) at the next position whose value was zero,
\* not after Se, never over a non-zero coefficient nor outside Ss..Se.
C20_RefinementSymbol ==
    /\ C20_InsideBand
    /\ C20_PassedRefined
    /\ C20_RunPassed
    /\ C20_NothingOverwritten

\* the band holds RRRR + 1 zeros from the current position on
RunFits ==
    Cardinality({k \in input.zigZagIndex..input.spectralEnd : input.coefficients[k + 1] = 0})
    > input.skipZeroes

\* the same statement for symbols whose run fits in the band
C20_FittingSymbol == RunFits => C20_RefinementSymbol

(***************************************************************************)
(* readProgressiveScan and readProgressiveHuffmanCodedSegment              *)
(* (src/jpeg.js), on progressive Huffman frames (SOF2) of one component:   *)
(* a first scan of a band and, in some files, a refinement scan of it.     *)
(***************************************************************************)

\* block.splice(start, items.length, ...items)
spliced(block, start, items) ==
    (SubSeq(block, 1, Min(start, Len(block))) \o items)
    \o SubSeq(block, Min(start, Len(block)) + Len(items) + 1, Len(block))

\* const block = dummyBlock ? (new Array(64).fill(0)) : coeffs[rowIndex + i][colIndex + j]
blockAt(coefficients, component, row, col) ==
    IF row >= component.blocksPerCol \/ col >= component.blocksPerRow
    THEN Zeros(64)
    ELSE coefficients[component.id][row + 1][col + 1]

\* approxBitHigh === 0: the band of the block is read as in a baseline scan
\* and spliced into the block, unless a run of zero bands covers the block
firstScanBlock(this, header, ecs, before, place, component, row, col) ==
    IF Truthy(before.zeroBands) THEN [before EXCEPT !.zeroBands = @ - 1]
    ELSE
    Then(readHuffmanSampleBlock(
             ecs, before.bytePos, before.bitPos, Len(ecs),
             before.prevDcCoeffs[place.componentIndex],
             ElementAt(this.dcDecoders, component.dcTable),
             ElementAt(this.acDecoders, component.acTable),
             header.spectralStart, header.spectralEnd),
         LAMBDA read :
    [ok |-> TRUE,
     bytePos |-> read.val[1],
     bitPos |-> read.val[2],
     band |-> read.val[3],
     zeroBands |-> IF Len(read.val) > 3 THEN read.val[4] ELSE Undefined,
     prevDcCoeffs |->
         IF header.spectralStart = 0
         THEN [before.prevDcCoeffs EXCEPT ![place.componentIndex] = read.val[3][1]]
         ELSE before.prevDcCoeffs,
     coefficients |->
         storeBlock(before.coefficients, component, row, col,
                    spliced(blockAt(before.coefficients, component, row, col),
                            header.spectralStart, read.val[3]))])

\* approxBitHigh > 0: every non-zero coefficient of the band gets one more
\* bit; inside a run of zero bands no coefficient becomes non-zero
refinementBlock(this, header, ecs, before, place, component, row, col) ==
    IF Truthy(before.zeroBands)
    THEN Then(readSuccessiveApproximationBits(
                  blockAt(before.coefficients, component, row, col),
                  header.spectralStart, header.spectralEnd + 1, FALSE,
                  ecs, before.bytePos, before.bitPos),
              LAMBDA read :
         [before EXCEPT
             !.bytePos = read.val[1],
             !.bitPos = read.val[2],
             !.zeroBands = @ - 1,
             !.coefficients = storeBlock(@, component, row, col, read.val[3])])
    ELSE Then(refineApproximateHuffmanCoefficients(
                  blockAt(before.coefficients, component, row, col),
                  ecs, before.bytePos, before.bitPos, Len(ecs),
                  ElementAt(this.dcDecoders, component.dcTable),
                  ElementAt(this.acDecoders, component.acTable),
                  header.spectralStart, header.spectralEnd),
              LAMBDA read :
         [before EXCEPT
             !.bytePos = read.val[1],
             !.bitPos = read.val[2],
             !.zeroBands = read.val[4],
             !.coefficients = storeBlock(@, component, row, col, read.val[3])])

\* one block of readProgressiveHuffmanCodedSegment
progressiveBlock(this, header, ecs, nextMcu, before, place, component) ==
    IF header.approxBitHigh = 0
    THEN firstScanBlock(this, header, ecs, before, place, component,
                        rowIndex(this, header, component, nextMcu) + place.i,
                        colIndex(this, header, component, nextMcu) + place.j)
    ELSE refinementBlock(this, header, ecs, before, place, component,
                         rowIndex(this, header, component, nextMcu) + place.i,
                         colIndex(this, header, component, nextMcu) + place.j)

\* the first k blocks of MCU nextMcu; segment is [ok, bytePos, bitPos,
\* zeroBands, band, prevDcCoeffs, coefficients]
RECURSIVE progressiveBlocks(_, _, _, _, _, _)
progressiveBlocks(this, header, ecs, nextMcu, segment, k) ==
    IF k = 0 THEN segment
    ELSE Then(progressiveBlocks(this, header, ecs, nextMcu, segment, k - 1),
              LAMBDA before :
         progressiveBlock(this, header, ecs, nextMcu, before,
                          mcuBlocks(header, Len(header.components))[k],
                          componentOf(header, k)))

\* const totalMcus = interleaved ? this.totalMcus : blocksPerRow * blocksPerCol
progressiveMcus(this, header) ==
    IF Len(header.components) > 1 THEN this.totalMcus
    ELSE blocksOf(header.components[1])

\* const expectedMcus = this.restartInterval ? Math.min(...) : totalMcus
expectedProgressiveMcus(this, header, mcuNumber) ==
    IF this.restartInterval # 0
    THEN Min(this.restartInterval, progressiveMcus(this, header) - mcuNumber)
    ELSE progressiveMcus(this, header)

\* the longest entropy-coded segment of a progressive scan
MaxProgressiveLen == 2

\* the largest successive-approximation low bit Al of a first scan
MaxAl == 1

\* bytes whose bits spell codes of ProgressiveHuffmanSegment with their
\* extra bits: 0xB0 = 10 1 | 110 0 | 0, 0xB4 = 10 1 1 | 0 | 1, 0xF4 = 11110 1
ProgressiveBytes == {0, 176, 180, 244}

\* DHT: DC table 0 (codes 0, 10, 110 for 0, 1, 2) and AC table 0 (codes 0,
\* 10, 110, 1110, 11110 for 0x00, 0x01, 0x11, 0xF0, 0x10)
ProgressiveHuffmanSegment ==
    <<255, 196, 0, 44>>
    \o <<0>> \o [len \in 1..16 |-> IF len <= 3 THEN 1 ELSE 0] \o <<0, 1, 2>>
    \o <<16>> \o [len \in 1..16 |-> IF len <= 5 THEN 1 ELSE 0] \o <<0, 1, 17, 240, 16>>

\* the bands <<Ss, Se>> of the scans
ProgressiveBands == {<<0, 0>>, <<1, 5>>, <<1, 63>>}

\* SOS of component 1 with tables 0, the band and Ah/Al, then its segment
ProgressiveScan(band, approxBitHigh, approxBitLow, ecs) ==
    <<255, 218, 0, 8, 1, 1, 0, band[1], band[2], approxBitHigh * 16 + approxBitLow>> \o ecs

ProgressiveData == SeqsUpTo(ProgressiveBytes, MaxProgressiveLen)

\* the segments of the first scan of a band that a second scan refines
RefinedData == {<<176>>, <<176, 176>>, <<176, 244>>, <<244>>}

\* a first scan of a band with low bit Al and, in some files, the scan that
\* refines the band by one bit
ProgressiveScans ==
    {ProgressiveScan(band, 0, al, ecs) :
        band \in ProgressiveBands, al \in 0..MaxAl, ecs \in ProgressiveData}
    \cup {ProgressiveScan(band, 0, al, first) \o ProgressiveScan(band, al, al - 1, second) :
            band \in ProgressiveBands, al \in 1..MaxAl,
            first \in RefinedData, second \in ProgressiveData}

\* one block, or a row of four blocks
ProgressiveWidths == {8, 32}

\* segments of a first scan in a frame of two components: 0xB0 as above, and
\* 0xB6 0xDD = 10 1 | 10 1 | 10 1 | 10 1 | 110 1, four coefficients and then
\* a zero and a coefficient (0x11)
TwoComponentData == {<<176>>, <<182, 221>>}

InitProgressive ==
    \/ \E width \in ProgressiveWidths, scans \in ProgressiveScans :
          AtScan(ScanFile(FrameSegment(194, width, 1), ProgressiveHuffmanSegment, <<>>),
                 scans \o <<255, 217>>)
    \/ \E band \in ProgressiveBands, ecs \in TwoComponentData :
          AtScan(ScanFile(FrameSegment(194, 8, 2), ProgressiveHuffmanSegment, <<>>),
                 ProgressiveScan(band, 0, 0, ecs) \o <<255, 217>>)

\* the same locals with a run of zero bands carried into the segment
progressiveSegment_Pending(header) ==
    [prevDcCoeffs |-> IF header.approxBitHigh = 0
                      THEN Zeros(Len(header.components)) ELSE <<>>,
     bytePos |-> 0, bitPos |-> 0, zeroBands |-> 1, band |-> Undefined]

\* the locals of readProgressiveHuffmanCodedSegment before its loop
progressiveSegment(header) ==
    [prevDcCoeffs |-> IF header.approxBitHigh = 0
                      THEN Zeros(Len(header.components)) ELSE <<>>,
     bytePos |-> 0, bitPos |-> 0, zeroBands |-> 0, band |-> Undefined]

ProgressiveSegmentStarted(extracted) ==
    IF ~extracted.ok THEN Thrown(extracted)
    ELSE /\ pc' = "mcu"
         /\ local' = [header    |-> local.header,
                      index     |-> local.index,
                      mcuNumber |-> local.mcuNumber,
                      segments  |-> local.segments + 1,
                      ecs       |-> extracted.val[1],
                      ecsEnd    |-> extracted.val[2],
                      nextMcu   |-> local.mcuNumber,
                      lastMcu   |-> local.mcuNumber
                                    + expectedProgressiveMcus(jpg, local.header,
                                                              local.mcuNumber),
                      reader    |-> progressiveSegment(local.header)]
         /\ UNCHANGED <<input, result, jpg>>

\* one turn of while (true) of readProgressiveScan up to the loop of the
\* segment reader
StartProgressiveSegment ==
    /\ pc = "segment"
    /\ jpg.frameData.coding = "huffman"
    /\ ProgressiveSegmentStarted(extractEntropyCodedSegment(input.buffer, local.index))

ProgressiveMcuDecoded(decoded) ==
    IF ~decoded.ok THEN Thrown(decoded)
    ELSE /\ jpg' = [jpg EXCEPT !.coefficients = decoded.coefficients]
         /\ local' = [local EXCEPT
                !.nextMcu = @ + 1,
                !.reader = [prevDcCoeffs |-> decoded.prevDcCoeffs,
                            bytePos |-> decoded.bytePos,
                            bitPos |-> decoded.bitPos,
                            zeroBands |-> decoded.zeroBands,
                            band |-> decoded.band]]
         /\ UNCHANGED <<pc, input, result>>

\* one turn of while (nextMcu < lastMcu && bytePos < ecs.length)
DecodeProgressiveMcu ==
    /\ pc = "mcu"
    /\ MoreMcus
    /\ ProgressiveMcuDecoded(
           progressiveBlocks(jpg, local.header, local.ecs, local.nextMcu,
                             [ok |-> TRUE,
                              bytePos |-> local.reader.bytePos,
                              bitPos |-> local.reader.bitPos,
                              zeroBands |-> local.reader.zeroBands,
                              band |-> local.reader.band,
                              prevDcCoeffs |-> local.reader.prevDcCoeffs,
                              coefficients |-> jpg.coefficients],
                             Len(mcuBlocks(local.header, Len(local.header.components)))))

\* the marker loop after the scan: i = buffer.indexOf(0xFF, i + 1) from the
\* SOS marker on; the next marker of these files is SOS or EOI
ContinueMarkers ==
    /\ pc = "scanned"
    /\ pc' = IF At(input.buffer, IndexOf(input.buffer, 255, local.ecsEnd) + 1) = 218
             THEN "scan" ELSE "done"
    /\ local' = [index |-> IndexOf(input.buffer, 255, local.ecsEnd),
                 scanned |-> local.header]
    /\ UNCHANGED <<input, result, jpg>>

NextProgressive ==
    \/ ReadScanHeader
    \/ StartProgressiveSegment
    \/ DecodeProgressiveMcu
    \/ EndSegment
    \/ ContinueMarkers

SpecProgressive == InitProgressive /\ [][NextProgressive]_vars

\* the first block of a first scan (Ah = 0) has just been decoded: band holds
\* the values decoded from the entropy-coded data
FirstBandDecoded ==
    /\ pc = "mcu"
    /\ local.header.approxBitHigh = 0
    /\ local.mcuNumber = 0
    /\ local.nextMcu = 1

\* zig-zag position k of the band is stored in the grid as value
BandStoredAs(k, value) ==
    At(jpg.coefficients[1][1][1], k) = value

\* C19 as stated: after the first progressive scan of a band (Ah = 0) with
\* low bit Al, every coefficient stored in the grid at zig-zag positions
\* Ss..Se equals the value decoded from the entropy-coded data shifted left
\* by Al bits.
C19_FirstScanShifted ==
    FirstBandDecoded =>
        \A k \in local.header.spectralStart..local.header.spectralEnd :
            BandStoredAs(k, ShiftLeft32(local.reader.band[k - local.header.spectralStart + 1],
                                        local.header.approxBitLow))

\* the grid holds the decoded values as they are, whatever Al is
C19_StoredAsDecoded ==
    FirstBandDecoded =>
        \A k \in local.header.spectralStart..local.header.spectralEnd :
            BandStoredAs(k, local.reader.band[k - local.header.spectralStart + 1])

\* the bit cursor of the segment reader
cursorBits(reader) == reader.bytePos * 8 + reader.bitPos

\* block n of the component of a one-component scan, in row-major order
GridBlock(coefficients, header, n) ==
    coefficients[1][(n \div header.components[1].blocksPerRow) + 1]
                   [(n % header.components[1].blocksPerRow) + 1]

\* the zig-zag positions of the band of the scan
BandPositions(header) == header.spectralStart..header.spectralEnd

\* the non-zero coefficients of the band of a block
NonZeroInBand(block, header) == {k \in BandPositions(header) : block[k + 1] # 0}

\* the segment reader decodes the next block (one block per MCU)
BlockStep == pc = "mcu" /\ pc' = "mcu" /\ local'.nextMcu = local.nextMcu + 1

\* the block is refined without a new coefficient: zeros stay zero, every
\* non-zero coefficient gets one bit, nothing outside the band changes
OnlyCorrected(before, after, header) ==
    /\ Len(after) = Len(before)
    /\ \A k \in 0..(Len(before) - 1) :
          IF k \in BandPositions(header) /\ before[k + 1] # 0
          THEN after[k + 1] \in {refined(before[k + 1], bit) : bit \in BOOLEAN}
          ELSE after[k + 1] = before[k + 1]

\* a block inside a run of zero bands: the counter goes down by one and no
\* Huffman symbol is decoded
RunBlock ==
    (BlockStep /\ Truthy(local.reader.zeroBands))
    => /\ local'.reader.zeroBands = local.reader.zeroBands - 1
       /\ IF local.header.approxBitHigh = 0
          THEN /\ cursorBits(local'.reader) = cursorBits(local.reader)
               /\ jpg'.coefficients = jpg.coefficients
               /\ NonZeroInBand(GridBlock(jpg'.coefficients, local.header, local.nextMcu),
                                local.header) = {}
          ELSE /\ cursorBits(local'.reader) - cursorBits(local.reader)
                  = Cardinality(NonZeroInBand(
                        GridBlock(jpg.coefficients, local.header, local.nextMcu),
                        local.header))
               /\ OnlyCorrected(GridBlock(jpg.coefficients, local.header, local.nextMcu),
                                GridBlock(jpg'.coefficients, local.header, local.nextMcu),
                                local.header)

\* the block of an AC band begins, on a byte boundary, with the code 11110
\* of the composite 0x10 (RRRR = 1) and its extra bit e
RunSymbolFirst ==
    /\ ~Truthy(local.reader.zeroBands)
    /\ local.header.spectralStart > 0
    /\ local.reader.bitPos = 0
    /\ At(local.ecs, local.reader.bytePos) \in 240..247

\* e of that symbol
RunExtraBit == (At(local.ecs, local.reader.bytePos) \div 4) % 2

\* the block that holds the symbol: its band is end-of-band from the symbol
\* on, and 2^RRRR - 1 + e blocks are to follow
RunStart ==
    (BlockStep /\ RunSymbolFirst)
    => /\ local'.reader.zeroBands = (Pow2(1) - 1) + RunExtraBit
       /\ IF local.header.approxBitHigh = 0
          THEN /\ cursorBits(local'.reader) = cursorBits(local.reader) + 6
               /\ NonZeroInBand(GridBlock(jpg'.coefficients, local.header, local.nextMcu),
                                local.header) = {}
          ELSE /\ cursorBits(local'.reader) - (cursorBits(local.reader) + 6)
                  = Cardinality(NonZeroInBand(
                        GridBlock(jpg.coefficients, local.header, local.nextMcu),
                        local.header))
               /\ OnlyCorrected(GridBlock(jpg.coefficients, local.header, local.nextMcu),
                                GridBlock(jpg'.coefficients, local.header, local.nextMcu),
                                local.header)

\* C21: in a progressive Huffman scan, after a composite RRRR|0000 with
\* 0 < RRRR < 15 and extra bits e, the rest of the band of the block is
\* end-of-band and exactly 2^RRRR - 1 + e following blocks of the segment
\* are end-of-band blocks for which no Huffman symbol is decoded (first
\* scan: no bit consumed, band left zero; refinement: only the correction
\* bits of the non-zero coefficients consumed); the run counter is 0 at the
\* start of every entropy-coded segment.
C21_EndOfBandRun ==
    /\ [](SegmentStart => local.reader.zeroBands = 0)
    /\ [][RunStart /\ RunBlock]_vars

\* a refinement scan has passed the two blocks of a run of two, the second
\* of which holds non-zero coefficients
C21_Witness ==
    /\ pc = "mcu"
    /\ local.header.approxBitHigh > 0
    /\ local.nextMcu = 3
    /\ local.reader.zeroBands = 0
    /\ cursorBits(local.reader) > 8
    /\ NonZeroInBand(GridBlock(jpg.coefficients, local.header, 2), local.header) # {}

(***************************************************************************)
(* Decoder.decodeBit (arithmetic.js) on a statistics area of two contexts: *)
(* context 0 starts in any state of the table, context 1 in state 0.       *)
(***************************************************************************)

\* the longest input of the decoder
MaxDecodeBytes == 2

\* the most decisions decoded from one input
MaxDecodedBits == 3

DecodeBytes == {0, 90, 255}

\* the indices of stateTable
TableStates == 0..(Len(stateTable) - 1)

InitDecode ==
    \E bytes \in SeqsUpTo(DecodeBytes, MaxDecodeBytes), state \in TableStates,
       mps \in BOOLEAN :
       /\ pc = "decode"
       /\ input = [bytes |-> bytes]
       /\ result = None
       /\ jpg = NewJpeg
       /\ local = [decoder |-> NewDecoder(bytes),
                   stats   |-> [moreProbableSymbol |-> <<mps, FALSE>>,
                                states |-> <<state, 0>>],
                   before  |-> Statistics(2),
                   decoded |-> 0,
                   context |-> Undefined,
                   bit     |-> FALSE]

\* the locals after decoder.decodeBit(stats, context); before keeps the
\* statistics the call started from
BitDecoded(context, decoded) ==
    local' = [decoder |-> decoded.decoder,
              stats   |-> decoded.stats,
              before  |-> local.stats,
              decoded |-> local.decoded + 1,
              context |-> context,
              bit     |-> decoded.result]

DecodeBit ==
    /\ pc = "decode"
    /\ local.decoded < MaxDecodedBits
    /\ \E context \in 0..1 : BitDecoded(context, decodeBit(local.decoder, local.stats, context))
    /\ UNCHANGED <<pc, input, result, jpg>>

NextDecode == DecodeBit

SpecDecode == InitDecode /\ [][NextDecode]_vars

\* the decision of the step is taken without renormalization: the base is
\* inside the MPS sub-interval, which is still at least 0x8000 wide
NoRenormalization(decoder, probability) ==
    /\ BaseHigh(decoder.intervalBase) < decoder.intervalSize - probability
    /\ decoder.intervalSize - probability >= 32768

\* what the claim says of the context the step decoded in, whose state was
\* old and whose more probable symbol was mps
StatisticsStep(context, old, mps) ==
    /\ \A c \in 0..1 : c # context =>
          /\ local'.stats.states[c + 1] = local.stats.states[c + 1]
          /\ local'.stats.moreProbableSymbol[c + 1] = local.stats.moreProbableSymbol[c + 1]
    /\ Len(local'.stats.states) = 2 /\ Len(local'.stats.moreProbableSymbol) = 2
    /\ local'.stats.states[context + 1] \in 0..112
    /\ IF local'.bit # mps
       THEN /\ local'.stats.states[context + 1] = stateTable[old + 1][2]
            /\ local'.stats.moreProbableSymbol[context + 1]
               = (IF stateTable[old + 1][4] = 1 THEN ~mps ELSE mps)
       ELSE IF ~NoRenormalization(local.decoder, stateTable[old + 1][1])
       THEN /\ local'.stats.states[context + 1] = stateTable[old + 1][3]
            /\ local'.stats.moreProbableSymbol[context + 1] = mps
       ELSE /\ local'.stats.states[context + 1] = old
            /\ local'.stats.moreProbableSymbol[context + 1] = mps

\* C22: decodeBit(stats, ctx) changes nothing in the statistics except
\* states[ctx] and mps[ctx]: a decoded LPS sets the state to NLPS and
\* toggles mps if and only if switchMPS is set for the old state, a decoded
\* MPS with renormalization sets the state to NMPS and keeps mps, a decoded
\* MPS without renormalization changes neither; the state stays in 0..112.
C22_StatisticsUpdate ==
    [][local'.decoded = local.decoded + 1
       => StatisticsStep(local'.context,
                         local.stats.states[local'.context + 1],
                         local.stats.moreProbableSymbol[local'.context + 1])]_vars

\* a less probable symbol has been decoded in a state with switchMPS set and
\* the more probable symbol of the context is now the other one
C22_Witness ==
    /\ local.decoded = 1
    /\ local.context = 0
    /\ local.bit # local.before.moreProbableSymbol[1]
    /\ stateTable[local.before.states[1] + 1][4] = 1
    /\ local.stats.states[1] = stateTable[local.before.states[1] + 1][2]
    /\ local.stats.moreProbableSymbol[1] = local.bit

\* C30: after construction and after every decodeDecision, for every input
\* including exhausted input, 0x8000 <= intervalSize <= 0x10000, the high 16
\* bits of intervalBase are less than intervalSize, and neededBits is in
\* 0..7.
C30_Registers ==
    /\ local.decoder.intervalSize >= 32768
    /\ local.decoder.intervalSize <= 65536
    /\ BaseHigh(local.decoder.intervalBase) < local.decoder.intervalSize
    /\ local.decoder.neededBits \in 0..7

\* two decisions have been decoded after the input was used up
C30_Witness ==
    /\ local.decoded = 2
    /\ Len(input.bytes) = 1
    /\ local.decoder.input = <<>>
    /\ local.decoder.intervalSize < 65536

(***************************************************************************)
(* Dummy blocks of interleaved scans (readHuffmanCodedSegment and          *)
(* readArithmeticCodedSegment)                                             *)
(***************************************************************************)

\* the segment after the first k blocks of the next MCU
blocksDecoded(this, reader, header, ecs, nextMcu, k) ==
    IF this.frameData.coding = "huffman"
    THEN huffmanBlocks(this, header, ecs, nextMcu,
                       [ok |-> TRUE,
                        bytePos |-> reader.bytePos,
                        bitPos |-> reader.bitPos,
                        prevDcCoeffs |-> reader.prevDcCoeffs,
                        coefficients |-> this.coefficients], k)
    ELSE arithmeticBlocks(this, header, nextMcu,
                          [ok |-> TRUE,
                           decoder |-> reader.decoder,
                           dcStats |-> this.dcStats,
                           acStats |-> this.acStats,
                           prevDcCoeffs |-> reader.prevDcCoeffs,
                           prevDcDeltas |-> reader.prevDcDeltas,
                           coefficients |-> this.coefficients], k)

\* (rowIndex + i) >= component.blocksPerCol || (colIndex + j) >= component.blocksPerRow
dummyBlock(this, header, nextMcu, place, component) ==
    \/ rowIndex(this, header, component, nextMcu) + place.i >= component.blocksPerCol
    \/ colIndex(this, header, component, nextMcu) + place.j >= component.blocksPerRow

\* the places of the dummy blocks of the next MCU
DummyPlaces(this, header, nextMcu) ==
    {k \in 1..Len(mcuBlocks(header, Len(header.components))) :
        dummyBlock(this, header, nextMcu,
                   mcuBlocks(header, Len(header.components))[k], componentOf(header, k))}

\* a Huffman-coded block read at the cursor of before has moved the cursor
\* to that of after and its DC value is the predictor of the component
HuffmanBlockDecoded(before, after, componentIndex, read) ==
    /\ read.ok
    /\ cursorBits(after) = read.val[1] * 8 + read.val[2]
    /\ cursorBits(after) >= cursorBits(before) + 2
    /\ after.prevDcCoeffs[componentIndex] = read.val[3][1]
    /\ \A c \in DOMAIN after.prevDcCoeffs :
          c # componentIndex => after.prevDcCoeffs[c] = before.prevDcCoeffs[c]

\* an arithmetic-coded block read with the decoder and statistics of before
\* has left those of after; its DC value is the predictor and its DC
\* difference the previous difference of the component
ArithmeticBlockDecoded(before, after, componentIndex, component, read) ==
    /\ read.ok
    /\ after.decoder = read.decoder
    /\ after.decoder # before.decoder
    /\ ElementAt(after.dcStats, component.dcTable) = read.dcStats
    /\ ElementAt(after.acStats, component.acTable) = read.acStats
    /\ after.prevDcCoeffs[componentIndex] = read.coefficients[1]
    /\ after.prevDcCoeffs[componentIndex]
       = before.prevDcCoeffs[componentIndex] + read.dcDelta
    /\ after.prevDcDeltas[componentIndex] = read.dcDelta

\* block place of the next MCU has been decoded like any block
BlockDecoded(this, header, ecs, before, after, place, component) ==
    IF this.frameData.coding = "huffman"
    THEN HuffmanBlockDecoded(before, after, place.componentIndex,
             readHuffmanSampleBlock(
                 ecs, before.bytePos, before.bitPos, Len(ecs),
                 before.prevDcCoeffs[place.componentIndex],
                 ElementAt(this.dcDecoders, component.dcTable),
                 ElementAt(this.acDecoders, component.acTable), 0, 63))
    ELSE ArithmeticBlockDecoded(before, after, place.componentIndex, component,
             readArithmeticSampleBlock(
                 before.decoder,
                 before.prevDcCoeffs[place.componentIndex],
                 before.prevDcDeltas[place.componentIndex],
                 dcTableOr(this.dcTables, component.dcTable),
                 acTableOr(this.acTables, component.acTable),
                 ElementAt(before.dcStats, component.dcTable),
                 ElementAt(before.acStats, component.acTable), 0, 63))

\* what the claim says of the dummy block at place k of the next MCU
DummyDecoded(this, header, ecs, before, after, k) ==
    (before.ok /\ after.ok) =>
        /\ after.coefficients = before.coefficients
        /\ BlockDecoded(this, header, ecs, before, after,
                     mcuBlocks(header, Len(header.components))[k], componentOf(header, k))

\* C23: in an interleaved scan, a block whose coordinates fall outside the
\* component's blocksPerCol x blocksPerRow grid is still decoded: it
\* consumes its bits, its DC value becomes the component's DC predictor, its
\* DC difference the previous difference, and it updates the arithmetic
\* statistics; but it leaves every block of the coefficient grid unchanged.
C23_DummyBlocks ==
    (pc = "mcu" /\ MoreMcus /\ Len(local.header.components) > 1) =>
        \A k \in DummyPlaces(jpg, local.header, local.nextMcu) :
            DummyDecoded(jpg, local.header, local.ecs,
                         blocksDecoded(jpg, local.reader, local.header, local.ecs,
                                       local.nextMcu, k - 1),
                         blocksDecoded(jpg, local.reader, local.header, local.ecs,
                                       local.nextMcu, k),
                         k)

\* an MCU with a dummy block has been decoded: the DC predictor of the first
\* component is the DC value of the dummy block, which the grid does not hold
C23_Witness ==
    /\ pc = "mcu"
    /\ Len(local.header.components) > 1
    /\ local.nextMcu = 1
    /\ DummyPlaces(jpg, local.header, 0) = {2}
    /\ local.reader.prevDcCoeffs[1] # jpg.coefficients[1][1][1][1]

(***************************************************************************)
(* The block coordinates of an interleaved scan: the loops over the MCUs   *)
(* and over the blocks of a component in readHuffmanCodedSegment, with the *)
(* grid that handleFrameHeader and initCoefficientsArray lay out. Only the *)
(* assignments coeffs[rowIndex + i][colIndex + j] = block are counted.     *)
(***************************************************************************)

\* the largest horizontal sampling factor of the frames (a frame header
\* holds a factor in four bits)
MaxGridSampling == 7

GridWidths == {8, 24, 168}

GridHeights == {8, 16}

GridVertSamplings == {1, 2}

\* the frame header of a frame of two components
GridFrame(width, height, h1, v1, h2, v2) ==
    [width |-> width, height |-> height,
     components |-> <<[id |-> 1, horizSampling |-> h1, vertSampling |-> v1],
                      [id |-> 2, horizSampling |-> h2, vertSampling |-> v2]>>]

\* the blocks of the grid of component: <<id, row, column>>
GridOf(component) ==
    {<<component.id, row, col>> :
        row \in 0..(component.blocksPerCol - 1), col \in 0..(component.blocksPerRow - 1)}

\* the blocks initCoefficientsArray allocates
GridBlocks(this) ==
    UNION {GridOf(this.frameData.components[c]) : c \in DOMAIN this.frameData.components}

InitGrid ==
    \E width \in GridWidths, height \in GridHeights,
       h1 \in 1..MaxGridSampling, h2 \in 1..MaxGridSampling,
       v1 \in GridVertSamplings, v2 \in GridVertSamplings :
       /\ pc = "grid"
       /\ input = GridFrame(width, height, h1, v1, h2, v2)
       /\ result = None
       /\ jpg = handleFrameHeader(input)
       /\ local = [nextMcu |-> 0, written |-> [block \in GridBlocks(jpg) |-> 0]]

\* the number of blocks of MCU nextMcu, dummy blocks left out, that are
\* assigned to the grid block
writesTo(this, header, nextMcu, block) ==
    Cardinality({k \in 1..Len(mcuBlocks(header, Len(header.components)))
                       \ DummyPlaces(this, header, nextMcu) :
                    /\ componentOf(header, k).id = block[1]
                    /\ rowIndex(this, header, componentOf(header, k), nextMcu)
                           + mcuBlocks(header, Len(header.components))[k].i = block[2]
                    /\ colIndex(this, header, componentOf(header, k), nextMcu)
                           + mcuBlocks(header, Len(header.components))[k].j = block[3]})

\* one turn of while (nextMcu < lastMcu) of an interleaved scan of all the
\* components of the frame
WriteMcu ==
    /\ pc = "grid"
    /\ local.nextMcu < jpg.totalMcus
    /\ local' = [nextMcu |-> local.nextMcu + 1,
                 written |-> [block \in GridBlocks(jpg) |->
                                 local.written[block]
                                 + writesTo(jpg, [components |-> jpg.frameData.components],
                                            local.nextMcu, block)]]
    /\ UNCHANGED <<pc, input, result, jpg>>

\* the loop ends after totalMcus MCUs
EndGrid ==
    /\ pc = "grid"
    /\ local.nextMcu = jpg.totalMcus
    /\ pc' = "scanned"
    /\ UNCHANGED <<input, result, jpg, local>>

NextGrid == WriteMcu \/ EndGrid

SpecGrid == InitGrid /\ [][NextGrid]_vars

\* C24 as stated: in an interleaved scan the mapping from (MCU number m, i,
\* j) to block coordinates (floor(m / mcusPerRow) * v + i, (m mod mcusPerRow)
\* * h + j) is injective and its in-range images cover every block of the
\* component's blocksPerCol x blocksPerRow grid, so that after a complete
\* scan every grid block has been written exactly once.
C24_EveryBlockOnce ==
    /\ \A block \in GridBlocks(jpg) : local.written[block] <= 1
    /\ pc = "scanned" => \A block \in GridBlocks(jpg) : local.written[block] = 1

\* the mapping is injective: no grid block is written twice
C24_Injective ==
    \A block \in GridBlocks(jpg) : local.written[block] <= 1

\* every block is written once where the block counts of the grid are the
\* exact quotients: the sampling factors 1..4 of ITU-T T.81 among them
C24_ExactGrid ==
    (/\ pc = "scanned"
     /\ \A c \in DOMAIN jpg.frameData.components :
           jpg.frameData.components[c].blocksPerRow
           = ceilOfQuotient_Exact(jpg.frameData.width, jpg.maxHorizSampling,
                                  jpg.frameData.components[c].horizSampling))
    => \A block \in GridBlocks(jpg) : local.written[block] = 1

(***************************************************************************)
(* readSuccessiveApproximationBits on blocks with more than 31 non-zero    *)
(* coefficients                                                            *)
(***************************************************************************)

\* the length of the blocks
MaxCoefficients == 34

\* a block whose coefficients alternate between value and -1, with a zero
\* at every multiple of gap (gap = 0: no zero, gap = 1: all zero)
ApproxBlock(gap, value) ==
    [k \in 1..MaxCoefficients |->
        IF gap # 0 /\ k % gap = 0 THEN 0
        ELSE IF k % 2 = 0 THEN -1 ELSE value]

\* coefficients of one and two bits, and of 31 bits: 2^30
ApproxValues == {1, 3, 1073741824}

ApproxBlocks == {ApproxBlock(gap, value) : gap \in {0, 1, 3, 8}, value \in ApproxValues}

\* buffers of one byte and of six bytes
ApproxBuffers ==
    {<<a>> : a \in {0, 165, 255}}
    \cup {<<a, b, a, b, a, b>> : a \in {0, 165, 255}, b \in {0, 165, 255}}

InitApprox ==
    \E coefficients \in ApproxBlocks, start \in {0, 1},
       end \in {3, MaxCoefficients - 2, MaxCoefficients - 1},
       readSignBit \in BOOLEAN, buffer \in ApproxBuffers, bitIndex \in {0, 5} :
       /\ pc = "call"
       /\ input = [coefficients |-> coefficients, start |-> start, end |-> end,
                   readSignBit |-> readSignBit, buffer |-> buffer,
                   index |-> 0, bitIndex |-> bitIndex]
       /\ result = None
       /\ jpg = Idle
       /\ local = Idle

ReadApproximation ==
    /\ pc = "call"
    /\ pc' = "done"
    /\ result' = readSuccessiveApproximationBits(
                     input.coefficients, input.start, input.end, input.readSignBit,
                     input.buffer, input.index, input.bitIndex)
    /\ UNCHANGED <<input, jpg, local>>

NextApprox == ReadApproximation

SpecApprox == InitApprox /\ [][NextApprox]_vars

\* bit n of the buffer, counted from the first bit of its first byte; bytes
\* that are not there read as zero
BitAt(buffer, n) ==
    IF n \div 8 < Len(buffer) THEN (buffer[(n \div 8) + 1] \div Pow2(7 - (n % 8))) % 2 ELSE 0

\* the non-zero coefficients at indices start..end-1
NonZeroIndices(coefficients, start, end) ==
    {i \in start..(end - 1) : coefficients[i + 1] # 0}

\* the bit of the buffer that corrects coefficient i: the bits are taken in
\* index order, after the sign bit if there is one
CorrectionBit(call, i) ==
    BitAt(call.buffer,
          call.index * 8 + call.bitIndex + (IF call.readSignBit THEN 1 ELSE 0)
          + Cardinality(NonZeroIndices(call.coefficients, call.start, i)))

\* sgn(c)
Sgn(c) == IF c > 0 THEN 1 ELSE IF c < 0 THEN -1 ELSE 0

\* what the claim says of a call that has returned
CorrectionBitsRead ==
    /\ result.ok
    /\ result.val[1] * 8 + result.val[2]
       = input.index * 8 + input.bitIndex + (IF input.readSignBit THEN 1 ELSE 0)
         + Cardinality(NonZeroIndices(input.coefficients, input.start, input.end))
    /\ Len(result.val[3]) = Len(input.coefficients)
    /\ \A i \in input.start..(input.end - 1) :
          /\ Sgn(result.val[3][i + 1]) = Sgn(input.coefficients[i + 1])
          /\ result.val[3][i + 1]
             = 2 * input.coefficients[i + 1]
               + Sgn(input.coefficients[i + 1]) * CorrectionBit(input, i)
    /\ \A i \in 0..(Len(input.coefficients) - 1) :
          (i < input.start \/ i > input.end \/ (i = input.end /\ ~input.readSignBit))
          => result.val[3][i + 1] = input.coefficients[i + 1]

\* C25 as stated: readSuccessiveApproximationBits advances the bit cursor by
\* exactly (number of non-zero coefficients at indices start..end-1) + (1 if
\* readSignBit) bits, also when that number exceeds 31; it replaces each
\* non-zero coefficient c, in index order, by 2c + sgn(c) * (its correction
\* bit), leaves zero coefficients in start..end-1 zero, and never changes the
\* sign of a coefficient.
C25_CorrectionBits == pc = "done" => CorrectionBitsRead

\* the same for blocks whose coefficients are all below 2^30 in magnitude,
\* so that c << 1 is 2c
C25_BelowOverflow ==
    (/\ pc = "done"
     /\ \A k \in 1..Len(input.coefficients) :
           input.coefficients[k] < 1073741824 /\ input.coefficients[k] > -1073741824)
    => CorrectionBitsRead

\* more than 31 bits have been read, and a negative coefficient corrected by
\* a bit of the second group of bits has got its bit
C25_SecondGroup ==
    /\ pc = "done"
    /\ input.readSignBit
    /\ Cardinality(NonZeroIndices(input.coefficients, input.start, input.end)) > 31
    /\ input.coefficients[input.end] = -1
    /\ result.val[3][input.end] = -3

(***************************************************************************)
(* The end of the marker loop of fromBytes                                 *)
(***************************************************************************)

\* the offset of the first EOI marker at segment level, or the length of the
\* buffer if there is none
EndOfImageAt(buffer) ==
    IF \E p \in MarkerStarts(buffer, 0) : buffer[p + 2] = 217
    THEN CHOOSE p \in MarkerStarts(buffer, 0) :
            /\ buffer[p + 2] = 217
            /\ \A q \in MarkerStarts(buffer, 0) : buffer[q + 2] = 217 => p <= q
    ELSE Len(buffer)

\* the JPEG object the marker loop builds from the bytes up to and including
\* the EOI marker: of the files of the check, SOI, at most one segment, EOI
UpToEndOfImage(buffer) ==
    IF At(buffer, 3) = 221
    THEN [NewJpeg EXCEPT !.restartInterval = readUInt16BE(buffer, 6)]
    ELSE IF At(buffer, 3) = 192
    THEN frameHeaderSegment(NewJpeg, buffer, 2).val
    ELSE NewJpeg

\* C26 as stated: marker processing ends at the EOI marker: bytes that follow
\* EOI are never dispatched as markers and never change the tables, the
\* frame data or the coefficients, so that two inputs that are identical up
\* to and including EOI yield identical rasters.
C26_EndsAtEndOfImage ==
    "dispatched" \in DOMAIN local =>
        /\ \A k \in 1..Len(local.dispatched) :
              local.dispatched[k][1] < EndOfImageAt(input.buffer)
        /\ (pc = "scanned" /\ input.buffer \in TrailedFiles)
           => jpg = UpToEndOfImage(input.buffer)

(***************************************************************************)
(* Arithmetic-coded scans and the DAC segments of the file                 *)
(***************************************************************************)

\* the scan is arithmetic-coded and one of its components refers to a DC or
\* AC conditioning table that no DAC segment has defined
UndefinedConditioning ==
    /\ pc \in {"mcu", "thrown", "scanned"}
    /\ "header" \in DOMAIN local
    /\ jpg.frameData.coding = "arithmetic"
    /\ \E c \in 1..Len(local.header.components) :
          \/ local.header.components[c].dcTable \notin DOMAIN jpg.dcTables
          \/ local.header.components[c].acTable \notin DOMAIN jpg.acTables

\* the statistics areas of the tables the scan refers to exist and are in
\* the reset state
ScanStatisticsReset ==
    \A c \in 1..Len(local.header.components) :
        /\ local.header.components[c].dcTable \in DOMAIN jpg.dcStats
        /\ local.header.components[c].acTable \in DOMAIN jpg.acStats
        /\ Cleared(jpg.dcStats[local.header.components[c].dcTable])
        /\ Cleared(jpg.acStats[local.header.components[c].acTable])

\* C27 as stated: an arithmetic-coded scan whose component refers to a DC or
\* AC conditioning table that no DAC segment has defined is decoded with the
\* default conditioning values and with statistics areas in the reset state;
\* decoding does not fail because a DAC segment is absent or defines only
\* some of the table numbers.
C27_DefaultConditioning ==
    UndefinedConditioning =>
        /\ pc = "thrown" => result.err # "TypeError"
        /\ SegmentStart => ScanStatisticsReset

\* with the tables of the scan defined by a DAC segment, no TypeError is
\* thrown and every segment starts with its statistics areas reset
C27_DefinedConditioning ==
    (/\ pc \in {"mcu", "thrown", "scanned"}
     /\ "header" \in DOMAIN local
     /\ jpg.frameData.coding = "arithmetic"
     /\ ~UndefinedConditioning)
    => /\ pc = "thrown" => result.err # "TypeError"
       /\ SegmentStart => ScanStatisticsReset

(***************************************************************************)
(* The context indices of the arithmetic decoder (src/arithmetic.js).  One *)
(* block of an arithmetic-coded segment is decoded decision by decision:   *)
(* the DC difference in a statistics area of 49 contexts, then the AC      *)
(* coefficients in an area of 245 contexts, both areas in the reset state  *)
(* as at the start of a segment.  pc is the decodeBit call that comes      *)
(* next in decodeDCCoefficientDelta, decodeACCoefficients and              *)
(* decodeSignMagnitude.                                                    *)
(***************************************************************************)

\* new Statistics(49) and new Statistics(245) of handleConditioningSegment
DcContexts == 49

AcContexts == 245

\* the longest segment that is decoded, byte stuffing removed
MaxContextBytes == 5

\* the most decisions that are decoded for one block
MaxContextSteps == 100

ContextBytes == {75, 198, 255}

\* the previous DC difference: one for each group of DC contexts under the
\* thresholds L = 0 and U = 2
PrevDcDeltas == {-4, -1, 0, 1, 4}

\* Kx of the AC conditioning table
AcThresholds == {1, 5}

\* the decodeBit calls of decodeSignMagnitude
MagnitudeCalls == {"sign", "one", "two", "category", "value"}

DecodeCalls == {"dcZero", "endOfBlock", "zeroRun"} \cup MagnitudeCalls

InitContext ==
    \E bytes \in SeqsUpTo(ContextBytes, MaxContextBytes),
       prevDcDelta \in PrevDcDeltas, threshold \in AcThresholds :
       /\ pc = "dcZero"
       /\ input = [bytes |-> bytes, prevDcDelta |-> prevDcDelta, threshold |-> threshold]
       /\ result = None
       /\ jpg = Idle
       /\ local = [decoder |-> NewDecoder(bytes), stats |-> Statistics(DcContexts),
                   area |-> "dc", S0 |-> DcContext(prevDcDelta, 0, 2),
                   zigZagIndex |-> 0, length |-> 0, steps |-> 0]

\* the context index that the next call of decodeBit is given
ContextPassed ==
    CASE pc = "dcZero"     -> local.S0
      [] pc = "endOfBlock" -> 3 * local.zigZagIndex
      [] pc = "zeroRun"    -> local.S0
      [] pc = "sign"       -> local.signContext
      [] pc = "one"        -> IF local.sign = 1 THEN local.posContext ELSE local.negContext
      [] pc = "two"        -> local.magContext1
      [] pc = "category"   -> local.context
      [] pc = "value"      -> local.context

\* this.decodeBit(stats, context) of the next call
NextBit == decodeBit(local.decoder, local.stats, ContextPassed)

\* the decoder and the statistics after the call
Decoded(bit) ==
    [local EXCEPT !.decoder = bit.decoder, !.stats = bit.stats, !.steps = @ + 1]

\* a call in a context that the area does not have throws
OutOfArea(bit) ==
    /\ ~bit.ok
    /\ pc' = "thrown"
    /\ result' = bit
    /\ local' = local

\* decodeSignMagnitude(stats, signContext, posContext, negContext, magContext1, magContext2)
signMagnitude(after, signContext, posContext, negContext, magContext1, magContext2) ==
    [decoder |-> after.decoder, stats |-> after.stats, area |-> after.area,
     S0 |-> after.S0, zigZagIndex |-> after.zigZagIndex, length |-> after.length,
     steps |-> after.steps,
     signContext |-> signContext, posContext |-> posContext, negContext |-> negContext,
     magContext1 |-> magContext1, magContext2 |-> magContext2]

\* decodeACCoefficients(acStats, Kx, 1, 63) after the DC difference
acCoefficients(after) ==
    [decoder |-> after.decoder, stats |-> Statistics(AcContexts), area |-> "ac",
     S0 |-> 1, zigZagIndex |-> 0, length |-> 0, steps |-> after.steps]

\* the value that decodeSignMagnitude returns is the DC difference or is
\* pushed to acCoefficients; zigZagIndex++ and the test of the do-while loop
Returned(after, value) ==
    /\ result' = Ok(value)
    /\ IF after.area = "dc"
       THEN /\ pc' = "endOfBlock"
            /\ local' = acCoefficients(after)
       ELSE /\ pc' = IF after.length + 1 <= 62 THEN "endOfBlock" ELSE "decoded"
            /\ local' = [decoder |-> after.decoder, stats |-> after.stats, area |-> "ac",
                         S0 |-> after.S0, zigZagIndex |-> after.zigZagIndex + 1,
                         length |-> after.length + 1, steps |-> after.steps]

\* if (!this.decodeBit(stats, S0)) return 0; return this.decodeSignMagnitude(...)
DecodeDcZero ==
    /\ pc = "dcZero"
    /\ \/ OutOfArea(NextBit)
       \/ /\ NextBit.ok
          /\ IF NextBit.result
             THEN /\ pc' = "sign"
                  /\ result' = result
                  /\ local' = signMagnitude(Decoded(NextBit), local.S0 + 1, local.S0 + 2,
                                            local.S0 + 3, X1, X1 + 1)
             ELSE Returned(Decoded(NextBit), 0)
    /\ UNCHANGED <<input, jpg>>

\* if (this.decodeBit(stats, SE)) { ...; return acCoefficients; }
DecodeEndOfBlock ==
    /\ pc = "endOfBlock"
    /\ local.steps < MaxContextSteps
    /\ \/ OutOfArea(NextBit)
       \/ /\ NextBit.ok
          /\ pc' = IF NextBit.result THEN "decoded" ELSE "zeroRun"
          /\ result' = result
          /\ local' = [Decoded(NextBit) EXCEPT !.S0 = 3 * local.zigZagIndex + 1]
    /\ UNCHANGED <<input, jpg>>

\* while (!this.decodeBit(stats, S0)) { push(0); zigZagIndex++; S0 += 3; ... }
\* and, when the loop is left, the call of decodeSignMagnitude with
\* SN_SP = X1 = S0 + 1
DecodeZeroRun ==
    /\ pc = "zeroRun"
    /\ local.steps < MaxContextSteps
    /\ \/ OutOfArea(NextBit)
       \/ /\ NextBit.ok
          /\ result' = result
          /\ IF ~NextBit.result
             THEN /\ pc' = "zeroRun"
                  /\ local' = [Decoded(NextBit) EXCEPT !.zigZagIndex = @ + 1,
                                                       !.length = @ + 1,
                                                       !.S0 = @ + 3]
             ELSE /\ pc' = "sign"
                  /\ local' = signMagnitude(Decoded(NextBit), Undefined, local.S0 + 1,
                                  local.S0 + 1, local.S0 + 1,
                                  IF local.zigZagIndex < input.threshold
                                  THEN X2_low ELSE X2_high)
    /\ UNCHANGED <<input, jpg>>

\* sign = this.decodeBit(stats, signContext) ? -1 : 1, or the decision with
\* the fixed estimate where signContext is null
DecodeSign ==
    /\ pc = "sign"
    /\ local.steps < MaxContextSteps
    /\ LET signed == decodeSign(local.decoder, local.stats, local.signContext)
       IN  \/ OutOfArea(signed)
           \/ /\ signed.ok
              /\ pc' = "one"
              /\ result' = result
              /\ local' = [sign |-> SignOf(signed.result)] @@ Decoded(signed)
    /\ UNCHANGED <<input, jpg>>

\* if (!this.decodeBit(stats, sign === 1 ? posContext : negContext)) return sign
DecodeOne ==
    /\ pc = "one"
    /\ local.steps < MaxContextSteps
    /\ \/ OutOfArea(NextBit)
       \/ /\ NextBit.ok
          /\ IF NextBit.result
             THEN /\ pc' = "two"
                  /\ result' = result
                  /\ local' = Decoded(NextBit)
             ELSE Returned(Decoded(NextBit), local.sign)
    /\ UNCHANGED <<input, jpg>>

\* if (!this.decodeBit(stats, magContext1)) return 2 * sign;
\* var context = magContext2; var magnitude = 4;
DecodeTwo ==
    /\ pc = "two"
    /\ local.steps < MaxContextSteps
    /\ \/ OutOfArea(NextBit)
       \/ /\ NextBit.ok
          /\ IF NextBit.result
             THEN /\ pc' = "category"
                  /\ result' = result
                  /\ local' = [context |-> local.magContext2, magnitude |-> 4]
                              @@ Decoded(NextBit)
             ELSE Returned(Decoded(NextBit), 2 * local.sign)
    /\ UNCHANGED <<input, jpg>>

\* while (this.decodeBit(stats, context)) { context++; magnitude <<= 1; }
\* context += 14; magnitude >>= 1; var value = magnitude;
\* and the first test of while (magnitude >>= 1)
DecodeCategory ==
    /\ pc = "category"
    /\ local.steps < MaxContextSteps
    /\ \/ OutOfArea(NextBit)
       \/ /\ NextBit.ok
          /\ IF NextBit.result
             THEN /\ pc' = "category"
                  /\ result' = result
                  /\ local' = [Decoded(NextBit) EXCEPT
                                  !.context = @ + 1,
                                  !.magnitude = ShiftLeft32(@, 1)]
             ELSE IF local.magnitude \div 4 = 0
             THEN Returned(Decoded(NextBit), (local.magnitude \div 2 + 1) * local.sign)
             ELSE /\ pc' = "value"
                  /\ result' = result
                  /\ local' = [value |-> local.magnitude \div 2]
                              @@ [Decoded(NextBit) EXCEPT
                                     !.context = @ + 14,
                                     !.magnitude = local.magnitude \div 4]
    /\ UNCHANGED <<input, jpg>>

\* while (magnitude >>= 1) if (this.decodeBit(stats, context)) value += magnitude;
\* return (value + 1) * sign; a magnitude that was shifted into the sign bit
\* never becomes 0 and the loop is never left
DecodeValue ==
    /\ pc = "value"
    /\ local.steps < MaxContextSteps
    /\ \/ OutOfArea(NextBit)
       \/ /\ NextBit.ok
          /\ LET value == IF NextBit.result THEN local.value + local.magnitude
                          ELSE local.value
             IN  IF local.magnitude < 0
                 THEN /\ pc' = "unending"
                      /\ result' = NoReturn
                      /\ local' = Decoded(NextBit)
                 ELSE IF local.magnitude \div 2 = 0
                 THEN Returned(Decoded(NextBit), (value + 1) * local.sign)
                 ELSE /\ pc' = "value"
                      /\ result' = result
                      /\ local' = [Decoded(NextBit) EXCEPT
                                      !.value = value,
                                      !.magnitude = @ \div 2]
    /\ UNCHANGED <<input, jpg>>

NextContext ==
    \/ DecodeDcZero
    \/ DecodeEndOfBlock
    \/ DecodeZeroRun
    \/ DecodeSign
    \/ DecodeOne
    \/ DecodeTwo
    \/ DecodeCategory
    \/ DecodeValue

SpecContext == InitContext /\ [][NextContext]_vars

\* C28 as stated: for every input byte sequence given to the arithmetic
\* decoder, every context index passed to decodeBit lies inside the
\* statistics area in use (0..48 for a DC area, 0..244 for an AC area): the
\* magnitude-category loop of decodeSignMagnitude and the zero-run loop of
\* decodeACCoefficients never advance a context index beyond the area.
C28_ContextsInArea ==
    (pc \in DecodeCalls /\ ContextPassed # Undefined)
    => ContextPassed \in 0..(Len(local.stats.states) - 1)

\* the magnitude-category loop does not leave the DC area
C28_DcCategoryInArea ==
    (pc = "category" /\ local.area = "dc") => local.context < DcContexts

\* the zero-run loop does not leave the AC area
C28_ZeroRunInArea ==
    pc = "zeroRun" => local.S0 < AcContexts

\* the context of the magnitude bits, 14 after the context at which the
\* magnitude-category loop was left, is inside the area
C28_ValueInArea ==
    pc = "value" => local.context < Len(local.stats.states)

\* the calls that are not in a loop are given a context inside the area
C28_FixedContextsInArea ==
    (pc \in {"dcZero", "endOfBlock", "sign", "one", "two"} /\ ContextPassed # Undefined)
    => ContextPassed \in 0..(Len(local.stats.states) - 1)

(***************************************************************************)
(* The coefficients that a progressive scan leaves alone                   *)
(* (readProgressiveScan, readProgressiveHuffmanCodedSegment).              *)
(***************************************************************************)

\* the ids of the components named in the scan header
ScanComponentIds(header) == {header.components[c].id : c \in 1..Len(header.components)}

\* the zig-zag positions of a block that are not in the band of the scan
OutsideBand(header) == (0..63) \ BandPositions(header)

\* block <<row, col>> of component id is the same after the step, at the
\* zig-zag positions given
SameAt(id, row, col, positions) ==
    \A k \in positions :
        At(jpg'.coefficients[id][row][col], k) = At(jpg.coefficients[id][row][col], k)

\* the blocks of one MCU have been decoded: nothing but the band of the
\* blocks of the components of the scan has changed
BandOnly ==
    BlockStep =>
        \A id \in DOMAIN jpg.coefficients :
        \A row \in DOMAIN jpg.coefficients[id] :
        \A col \in DOMAIN jpg.coefficients[id][row] :
            IF id \in ScanComponentIds(local.header)
            THEN SameAt(id, row, col, OutsideBand(local.header))
            ELSE SameAt(id, row, col, 0..63)

\* C29 as stated: a progressive scan with spectral band [Ss, Se] changes
\* only the zig-zag positions Ss..Se of blocks that belong to the components
\* named in its scan header: positions outside the band and blocks of all
\* other components are the same after the scan as before it, for every
\* input.
C29_OnlyBandChanged == [][BandOnly]_vars

\* the blocks of the components that the scan header does not name are the
\* same after every MCU of the scan
C29_OtherComponentsUnchanged ==
    [][BlockStep =>
          \A id \in DOMAIN jpg.coefficients \ ScanComponentIds(local.header) :
              jpg'.coefficients[id] = jpg.coefficients[id]]_vars

\* no first scan of the band 1..5 stores a coefficient at zig-zag position 6
\* of a block of its component; the segment B6 DD does
C29_BeyondBand ==
    ~(/\ pc = "mcu"
      /\ local.header.spectralStart = 1
      /\ local.header.spectralEnd = 5
      /\ local.nextMcu = 1
      /\ At(jpg.coefficients[1][1][1], 6) # 0)
====
